---- MODULE Spec2Model ----
(***************************************************************************)
(* Twikoo Cloudflare worker (src/src/index.js): the request handler, its   *)
(* module globals (config, accessToken, requestTimes), and the D1 tables   *)
(* comment, config and counter.                                            *)
(*                                                                         *)
(* A request is handled in segments: one action per storage operation,     *)
(* holding the operation itself and the synchronous code that follows it   *)
(* up to the point where the next storage operation is issued (the code    *)
(* between two awaits runs without interruption in a JavaScript isolate).  *)
(* Between two segments of one request, segments of other requests may     *)
(* run: the isolate handles several requests at once.                      *)
(***************************************************************************)
EXTENDS Integers, Sequences, FiniteSets, TLC

----------------------------------------------------------------------------
(* Bounds of the model *)

NumReq == 2          \* request slots (requests in flight at once)
MaxComments == 2     \* rows the comment table may hold
MaxTicks == 2        \* clock values
MaxRequests == 3     \* requests one IP sends in a run

----------------------------------------------------------------------------
(* Values *)

Reqs == 1..NumReq

NoToken == 0                     \* event.accessToken absent
AdminToken == 1
IPs == {"ip1", "ip2"}
Urls == {"/a", "/b"}
NoUrl == ""                      \* event.url absent
NoId == 0                        \* '' as pid / rid, or event.id absent
NoCursor == 0 - 1                \* event.before absent (undefined)
NaN == 0 - 1
NoMail == 0
BloggerMail == 1

\* Time is counted in minutes (60000 ms), so that the values fit TLC's
\* integers: 600000 ms is 10, 41025312000000 ms is 683755200
WindowMs == 10                   \* the 10 minute window of limitFilter
TickMs == WindowMs \div 2        \* the clock advances in steps of 5 minutes
MAX_TIMESTAMP_MILLIS == 683755200
MAX_QUERY_LIMIT == 500
DefaultPageSize == 8
DefaultLimit == 10
MAX_REQUEST_TIMES == 250

\* uuidv4(): the n-th identifier generated; never a token a client holds
Uuid(n) == 100 + n

\* md5: injective on the values of the model
Md5(x) == 7 * x + 3

Max(a, b) == IF a > b THEN a ELSE b
Min(a, b) == IF a < b THEN a ELSE b

Range(s) == {s[i] : i \in DOMAIN s}

----------------------------------------------------------------------------
(* JavaScript objects as ordered lists of <<key, value>> (keys unique),    *)
(* which is also the order JSON.stringify writes and JSON.parse reads.     *)

Keys(o) == {o[i][1] : i \in DOMAIN o}
HasKey(o, k) == k \in Keys(o)
Field(o, k) == o[CHOOSE i \in DOMAIN o : o[i][1] = k][2]
AsMap(o) == [k \in Keys(o) |-> Field(o, k)]

\* o[k] used as a condition: undefined and 0 are falsy
Truthy(o, k) == HasKey(o, k) /\ Field(o, k) # 0

\* a config value that is no number, such as 'abc'
NotNumeric == 0 - 2

\* parseInt(o[k]): NaN when undefined or no number
ParseInt(o, k) ==
  IF HasKey(o, k) /\ Field(o, k) # NotNumeric THEN Field(o, k) ELSE NaN

\* { ...a, ...b }
\* (faulty variant: the written object replaces the stored one)
SpreadOverwrite(a, b) == b
Spread(a, b) ==
  LET fresh(p) == ~HasKey(a, p[1])
  IN  [i \in DOMAIN a |-> IF HasKey(b, a[i][1])
                          THEN <<a[i][1], Field(b, a[i][1])>>
                          ELSE a[i]] \o SelectSeq(b, fresh)

\* The config table's single row: value is '' (isJson FALSE) or a JSON text
EmptyRow == [isJson |-> FALSE, members |-> <<>>]
JsonStringify(o) == [isJson |-> TRUE, members |-> o]
\* readConfig: configStr ? JSON.parse(configStr) : {}
ParseConfigStr(row) == IF row.isJson THEN row.members ELSE <<>>

----------------------------------------------------------------------------
(* Rows of the comment table *)

Row(uid, ip, url, pid, rid, isSpam, created, updated, like, top) ==
  [uid |-> uid, ip |-> ip, url |-> url, pid |-> pid, rid |-> rid,
   isSpam |-> isSpam, created |-> created, updated |-> updated,
   like |-> like, top |-> top]

NoRow == Row(NoToken, "", NoUrl, NoId, NoId, FALSE, 0, 0, <<>>, FALSE)

SpamNum(b) == IF b THEN 1 ELSE 0

\* isAdminUser ? 2 : 1
SpamArg(isAdminUser) == IF isAdminUser THEN 2 ELSE 1

\* (isSpam != ?2 OR uid = ?3)
\* (faulty variant: without OR uid = ?3)
VisibleNoSelf(row, spamArg, uid) == SpamNum(row.isSpam) # spamArg
VisibleRow(row, spamArg, uid) == SpamNum(row.isSpam) # spamArg \/ row.uid = uid

\* commentCountQuery
CommentCountQuery(tbl, url, spamArg, uid) ==
  Cardinality({i \in DOMAIN tbl :
     tbl[i].url = url /\ tbl[i].rid = NoId /\ VisibleRow(tbl[i], spamArg, uid)})

\* the rows commentQuery selects, before ORDER BY and LIMIT
CommentQueryRows(tbl, url, spamArg, uid, before, top) ==
  {i \in DOMAIN tbl :
     /\ tbl[i].url = url
     /\ VisibleRow(tbl[i], spamArg, uid)
     /\ tbl[i].created < before
     /\ tbl[i].top = top
     /\ tbl[i].rid = NoId}

\* ORDER BY created DESC: every order of S with created non-increasing
\* (SQL leaves the order of rows with equal created open)
OrderedDesc(tbl, S) ==
  {s \in [1..Cardinality(S) -> S] :
     /\ \A i, j \in DOMAIN s : i # j => s[i] # s[j]
     /\ \A i, j \in DOMAIN s : i < j => tbl[s[i]].created >= tbl[s[j]].created}

\* LIMIT n
Limit(s, n) == SubSeq(s, 1, Min(n, Len(s)))

\* commentQuery: the results the query may give
CommentQuery(tbl, url, spamArg, uid, before, top, lim) ==
  {Limit(s, lim) :
     s \in OrderedDesc(tbl, CommentQueryRows(tbl, url, spamArg, uid, before, top))}

\* getReplyQuery(n) bound to the ids: rid IN (ids)
ReplyQuery(tbl, url, spamArg, uid, ids) ==
  {i \in DOMAIN tbl :
     tbl[i].url = url /\ VisibleRow(tbl[i], spamArg, uid) /\ tbl[i].rid \in ids}

\* commentCountSinceByIpQuery, commentCountSinceQuery
CommentCountSinceByIpQuery(tbl, since, ip) ==
  Cardinality({i \in DOMAIN tbl : tbl[i].created > since /\ tbl[i].ip = ip})
CommentCountSinceQuery(tbl, since) ==
  Cardinality({i \in DOMAIN tbl : tbl[i].created > since})

----------------------------------------------------------------------------
(* State *)

VARIABLES
  now,           \* Date.now()
  comment,       \* table comment: _id -> row
  configRow,     \* table config: the value of its row
  counter,       \* table counter: url -> [time, title]
  config,        \* module global config
  accessToken,   \* module global accessToken
  requestTimes,  \* module global requestTimes: ip -> count
  db,            \* module global db: the statement caches of the DBBinding
  uuidSeq,       \* identifiers generated so far
  bgTasks,       \* postSubmit tasks running: _id -> stage
  pc,            \* per request slot: the segment it waits for
  ev,            \* per request slot: the event (request body and IP)
  own,           \* per request slot: the token resolved for this request
  loc,           \* per request slot: the handler's local variables
  res,           \* per request slot: the response being built
  hist           \* observations of completed requests (not program state)

dbVars == <<comment, configRow, counter>>
globVars == <<config, accessToken, requestTimes, db>>
slotVars == <<pc, ev, own, loc, res>>
vars == <<now, comment, configRow, counter, config, accessToken,
          requestTimes, db, uuidSeq, bgTasks, pc, ev, own, loc, res, hist>>

----------------------------------------------------------------------------
(* Statements prepared on demand *)

\* A prepared statement: what its SQL text says (the number of rid
\* placeholders, or the fields of the SET list in order) and which object it
\* is: the obj-th result of DB.prepare
Stmt(kind, n, fields, obj) == [kind |-> kind, n |-> n, fields |-> fields, obj |-> obj]

NoStmt == Stmt("", 0, <<>>, 0)

\* new DBBinding(DB): no cache yet; DB lists the texts given to DB.prepare
Db0 == [replyQueryCache |-> [n \in {} |-> NoStmt],
        commentSetStmtCache |-> [k \in {} |-> NoStmt],
        DB |-> <<>>]

\* this.replyQueryCache.get(numParams), if (cached)
\* (faulty variant: the cache is never hit)
ReplyCachedNever(d, numParams) == FALSE
ReplyCached(d, numParams) == numParams \in DOMAIN d.replyQueryCache

\* getReplyQuery(numParams): the statement returned, and db after the call
GetReplyQuery(d, numParams) ==
  IF ReplyCached(d, numParams)
  THEN [stmt |-> d.replyQueryCache[numParams], db |-> d]
  ELSE LET result == Stmt("reply", numParams, <<>>, Len(d.DB) + 1)
       IN  [stmt |-> result,
            db |-> [d EXCEPT
                      !.DB = Append(@, [kind |-> "reply", n |-> numParams,
                                        fields |-> <<>>]),
                      !.replyQueryCache =
                         [k \in DOMAIN @ \cup {numParams} |->
                            IF k = numParams THEN result ELSE @[k]]]]

\* getCommentSetStmt(fields); JSON.stringify(fields) is the list itself
GetCommentSetStmt(d, fields) ==
  IF fields \in DOMAIN d.commentSetStmtCache
  THEN [stmt |-> d.commentSetStmtCache[fields], db |-> d]
  ELSE LET result == Stmt("set", 0, fields, Len(d.DB) + 1)
       IN  [stmt |-> result,
            db |-> [d EXCEPT
                      !.DB = Append(@, [kind |-> "set", n |-> 0, fields |-> fields]),
                      !.commentSetStmtCache =
                         [k \in DOMAIN @ \cup {fields} |->
                            IF k = fields THEN result ELSE @[k]]]]

----------------------------------------------------------------------------
(* Requests *)

\* The request body (event) and the CF-Connecting-IP header
Ev == [event |-> "", ip |-> "ip1", accessToken |-> NoToken, url |-> NoUrl,
       before |-> NoCursor, id |-> NoId, pid |-> NoId, rid |-> NoId,
       hasBody |-> FALSE, mail |-> NoMail, set |-> <<>>, config |-> <<>>,
       password |-> 0, title |-> "", type |-> "", import |-> <<>>,
       keyword |-> "", per |-> 0, page |-> 0]

\* A handler's local variables
Loc0 == [uid |-> NoToken, isAdminUser |-> FALSE, limit |-> 0, more |-> FALSE,
         count |-> 0, main |-> <<>>, top |-> <<>>, since |-> 0,
         limIp |-> 0, limAll |-> 0, gotIp |-> FALSE, gotAll |-> FALSE,
         cntIp |-> 0, cntAll |-> 0,
         data |-> NoRow, newId |-> NoId, ts |-> 0,
         likes |-> <<>>, fields |-> <<>>, merged |-> <<>>, pending |-> <<>>,
         trail |-> <<>>, page |-> <<>>, snap |-> [i \in {} |-> NoRow],
         stmt |-> NoStmt, args |-> <<>>]

\* The response body; code "" is a response without code
Res0 == [code |-> "", message |-> "", id |-> NoId, data |-> <<>>,
         reply |-> {}, more |-> FALSE, count |-> 0, time |-> 0,
         accessToken |-> NoToken, log |-> <<>>]

\* fetch, lines 427-433: an error thrown by a handler
Thrown(msg) == [Res0 EXCEPT !.code = "FAIL", !.message = msg]

\* fetch, lines 434-436: request.body is a stream and has no accessToken
\* property, so the condition is !res.code (SUCCESS is 0)
Finalize(rs, tok) ==
  IF rs.code \in {"", "SUCCESS"} THEN [rs EXCEPT !.accessToken = tok] ELSE rs

\* isAdmin()
IsAdmin(cfg, tok) == HasKey(cfg, "ADMIN_PASS") /\ Field(cfg, "ADMIN_PASS") = Md5(tok)

\* anonymousSignIn(event)
AnonymousSignIn(e, n) == IF e.accessToken # NoToken THEN e.accessToken ELSE Uuid(n + 1)

Step(p, l, rs) == [pc |-> p, loc |-> l, res |-> rs]

NeedLogin == [Res0 EXCEPT !.code = "NEED_LOGIN", !.message = "login"]

----------------------------------------------------------------------------
(* The first segment of each handler: from the dispatch in fetch to the    *)
(* first storage operation the handler issues.  cfg is the config just     *)
(* read, tok the global accessToken, t the clock.                          *)

\* parseInt(config.COMMENT_PAGE_SIZE) || 8
PageLimit(cfg) ==
  LET n == ParseInt(cfg, "COMMENT_PAGE_SIZE")
  IN  IF n = NaN \/ n = 0 THEN DefaultPageSize ELSE n

\* commentGet, lines 526-535
CommentGetStart(e, cfg, tok, t) ==
  IF e.url = NoUrl
  THEN Step("done", Loc0, [Res0 EXCEPT !.message = "url"])
  ELSE Step("getCount",
            [Loc0 EXCEPT !.uid = tok, !.isAdminUser = IsAdmin(cfg, tok),
                         !.limit = PageLimit(cfg)],
            Res0)

\* limitFilter, lines 876-880
\* (faulty variant: without the default)
LimitOfNoDefault(cfg, k) == ParseInt(cfg, k)
LimitOf(cfg, k) ==
  LET n == ParseInt(cfg, k) IN IF n = NaN THEN DefaultLimit ELSE n

\* commentSubmit, lines 775-779, and limitFilter up to its Promise.all
CommentSubmitStart(e, cfg, tok, t) ==
  IF e.url = NoUrl \/ ~e.hasBody
  THEN Step("done", Loc0, Thrown("param"))
  ELSE LET li == LimitOf(cfg, "LIMIT_PER_MINUTE")
           la == LimitOf(cfg, "LIMIT_PER_MINUTE_ALL")
       IN  Step("limitFilter",
                [Loc0 EXCEPT !.limIp = li, !.limAll = la,
                             !.gotIp = (li = 0), !.gotAll = (la = 0),
                             !.since = t - WindowMs,
                             !.trail = <<"validate">>],
                Res0)

\* commentLike, lines 737-739, and like up to its query
CommentLikeStart(e, cfg, tok, t) ==
  IF e.id = NoId
  THEN Step("done", Loc0, Thrown("param"))
  ELSE Step("likeRead", [Loc0 EXCEPT !.uid = tok], Res0)

\* counterGet, lines 932-935
CounterGetStart(e, cfg, tok, t) ==
  IF e.url = NoUrl
  THEN Step("done", Loc0, [Res0 EXCEPT !.message = "url"])
  ELSE Step("counterInc", [Loc0 EXCEPT !.ts = t], Res0)

\* The column names used here, in the order of their UTF-16 code units
FieldOrder == <<"created", "ip", "isSpam", "top", "url">>

\* Object.keys(event.set), in insertion order
\* (faulty variant of the line below: without .sort())
ObjectKeys(set) == [i \in DOMAIN set |-> set[i][1]]

\* Object.keys(event.set).sort()
SortedFields(set) ==
  LET ks == Keys(set)
      n == Cardinality(ks)
      rank(f) == CHOOSE k \in DOMAIN FieldOrder : FieldOrder[k] = f
  IN  CHOOSE s \in [1..n -> ks] : \A i, j \in 1..n : i < j => rank(s[i]) < rank(s[j])

\* commentSetForAdmin, lines 614-621: fields, and the arguments of bind
CommentSetForAdminStart(e, cfg, tok, t) ==
  IF ~IsAdmin(cfg, tok) THEN Step("done", Loc0, NeedLogin)
  ELSE IF e.id = NoId \/ e.set = <<>> THEN Step("done", Loc0, Thrown("param"))
  ELSE LET fields == SortedFields(e.set)
       IN  Step("adminSet",
                [Loc0 EXCEPT !.isAdminUser = TRUE, !.fields = fields,
                   !.args = [k \in DOMAIN fields |-> Field(e.set, fields[k])]
                              \o <<e.id>>],
                Res0)

\* commentDeleteForAdmin, lines 632-636
CommentDeleteForAdminStart(e, cfg, tok, t) ==
  IF ~IsAdmin(cfg, tok) THEN Step("done", Loc0, NeedLogin)
  ELSE IF e.id = NoId THEN Step("done", Loc0, Thrown("param"))
  ELSE Step("adminDelete", [Loc0 EXCEPT !.isAdminUser = TRUE], Res0)

\* commentGetForAdmin, lines 583-586: validate(event, ['per', 'page'])
\* throws on a value that is absent or 0
CommentGetForAdminStart(e, cfg, tok, t) ==
  IF ~IsAdmin(cfg, tok) THEN Step("done", Loc0, NeedLogin)
  ELSE IF e.per = 0 \/ e.page = 0 THEN Step("done", Loc0, Thrown("param"))
  ELSE Step("adminCount", [Loc0 EXCEPT !.isAdminUser = TRUE], Res0)

\* commentExportForAdmin, lines 704-707
CommentExportForAdminStart(e, cfg, tok, t) ==
  IF ~IsAdmin(cfg, tok) THEN Step("done", Loc0, NeedLogin)
  ELSE Step("adminExport", [Loc0 EXCEPT !.isAdminUser = TRUE], Res0)

\* commentImportForAdmin, lines 647-688: event.import is the list of
\* records the import adapter returns for event.file
CommentImportForAdminStart(e, cfg, tok, t) ==
  IF ~IsAdmin(cfg, tok) THEN Step("done", Loc0, NeedLogin)
  ELSE IF e.import = <<>>
  THEN Step("done", Loc0,
            [Res0 EXCEPT !.code = "SUCCESS", !.log = <<"start", "success">>])
  ELSE Step("adminImport",
            [Loc0 EXCEPT !.isAdminUser = TRUE, !.pending = e.import],
            [Res0 EXCEPT !.log = <<"start">>])

\* writeConfig, lines 1042-1046: nothing to write, or the read is issued
WriteConfigStart(newConfig, l) ==
  IF newConfig = <<>>
  THEN Step("done", l, [Res0 EXCEPT !.code = "SUCCESS"])
  ELSE Step("writeConfigRead", [l EXCEPT !.merged = newConfig], Res0)

\* setConfig, lines 1008-1021
SetConfigStart(e, cfg, tok, t) ==
  IF ~IsAdmin(cfg, tok) THEN Step("done", Loc0, NeedLogin)
  ELSE WriteConfigStart(e.config, [Loc0 EXCEPT !.isAdminUser = TRUE])

\* setPassword, lines 485-493
SetPasswordStart(e, cfg, tok, t) ==
  IF Truthy(cfg, "ADMIN_PASS") /\ ~IsAdmin(cfg, tok)
  THEN Step("done", Loc0, [Res0 EXCEPT !.code = "PASS_EXIST", !.message = "login"])
  ELSE WriteConfigStart(<< <<"ADMIN_PASS", Md5(e.password)>> >>,
                        [Loc0 EXCEPT !.isAdminUser = IsAdmin(cfg, tok)])

\* fetch, lines 352-426
Dispatch(e, cfg, tok, t) ==
  CASE e.event = "COMMENT_GET" -> CommentGetStart(e, cfg, tok, t)
    [] e.event = "COMMENT_GET_FOR_ADMIN" -> CommentGetForAdminStart(e, cfg, tok, t)
    [] e.event = "COMMENT_SET_FOR_ADMIN" -> CommentSetForAdminStart(e, cfg, tok, t)
    [] e.event = "COMMENT_DELETE_FOR_ADMIN" -> CommentDeleteForAdminStart(e, cfg, tok, t)
    [] e.event = "COMMENT_IMPORT_FOR_ADMIN" -> CommentImportForAdminStart(e, cfg, tok, t)
    [] e.event = "COMMENT_EXPORT_FOR_ADMIN" -> CommentExportForAdminStart(e, cfg, tok, t)
    [] e.event = "COMMENT_LIKE" -> CommentLikeStart(e, cfg, tok, t)
    [] e.event = "COMMENT_SUBMIT" -> CommentSubmitStart(e, cfg, tok, t)
    [] e.event = "COUNTER_GET" -> CounterGetStart(e, cfg, tok, t)
    [] e.event = "SET_PASSWORD" -> SetPasswordStart(e, cfg, tok, t)
    [] e.event = "SET_CONFIG" -> SetConfigStart(e, cfg, tok, t)
    [] OTHER -> Step("done", Loc0, [Res0 EXCEPT !.code = "EVENT_NOT_EXIST"])

----------------------------------------------------------------------------
(* Request lifecycle *)

NoTable == [i \in {} |-> NoRow]

Hist0 == [get |-> [valid |-> FALSE, url |-> NoUrl, own |-> NoToken,
                   main |-> {}, boundary |-> 0, rest |-> {}],
          like |-> [valid |-> FALSE, id |-> NoId, own |-> NoToken, pre |-> {}],
          cfg |-> <<>>,
          incs |-> [u \in Urls |-> 0],
          title |-> [u \in Urls |-> ""]]

InitWith(row, tbl) ==
  /\ now = TickMs
  /\ comment = tbl
  /\ configRow = row
  /\ counter = [u \in {} |-> [title |-> "", time |-> 0, created |-> 0, updated |-> 0]]
  /\ config = <<>>
  /\ accessToken = NoToken
  /\ requestTimes = [ip \in IPs |-> 0]
  /\ db = Db0
  /\ uuidSeq = 0
  /\ bgTasks = [i \in {} |-> "postSubmit"]
  /\ pc = [r \in Reqs |-> "idle"]
  /\ ev = [r \in Reqs |-> Ev]
  /\ own = [r \in Reqs |-> NoToken]
  /\ loc = [r \in Reqs |-> Loc0]
  /\ res = [r \in Reqs |-> Res0]
  /\ hist = [Hist0 EXCEPT !.cfg = AsMap(ParseConfigStr(row))]

\* The segment of slot r ends: it waits at p with locals l and response rs;
\* at "done" the response is completed (fetch, lines 434-439)
Goto(r, p, l, rs) ==
  /\ pc' = [pc EXCEPT ![r] = p]
  /\ loc' = [loc EXCEPT ![r] = l]
  /\ res' = [res EXCEPT ![r] = IF p = "done" THEN Finalize(rs, accessToken) ELSE rs]

\* Date.now() advances
Tick ==
  /\ now < MaxTicks * TickMs
  /\ now' = now + TickMs
  /\ UNCHANGED <<dbVars, globVars, uuidSeq, bgTasks, slotVars, hist>>

\* protect, line 1027
TooManyAtCeiling(n) == n >= MAX_REQUEST_TIMES
TooMany(n) == n > MAX_REQUEST_TIMES

\* fetch, lines 331-347: a request arrives; protect, anonymousSignIn, and
\* the config read is issued
Arrive(r, e) ==
  /\ pc[r] = "idle"
  /\ requestTimes' = [requestTimes EXCEPT ![e.ip] = @ + 1]
  /\ ev' = [ev EXCEPT ![r] = e]
  /\ IF TooMany(requestTimes'[e.ip])
     THEN /\ pc' = [pc EXCEPT ![r] = "done"]
          /\ res' = [res EXCEPT ![r] = Thrown("Too Many Requests")]
          /\ UNCHANGED <<accessToken, uuidSeq, own>>
     ELSE /\ accessToken' = AnonymousSignIn(e, uuidSeq)
          /\ uuidSeq' = IF e.accessToken # NoToken THEN uuidSeq ELSE uuidSeq + 1
          /\ own' = [own EXCEPT ![r] = AnonymousSignIn(e, uuidSeq)]
          /\ pc' = [pc EXCEPT ![r] = "readConfig"]
          /\ UNCHANGED res
  /\ UNCHANGED <<now, dbVars, config, db, bgTasks, loc, hist>>

\* a request of an IP that has sent fewer than MaxRequests arrives
Begin(r, e) ==
  /\ requestTimes[e.ip] < MaxRequests
  /\ Arrive(r, e)

\* m overlaid with n
Overlay(m, n) ==
  [k \in DOMAIN m \cup DOMAIN n |-> IF k \in DOMAIN n THEN n[k] ELSE m[k]]

\* the maps given to writeConfig so far, overlaid in call order on the
\* initial map (observation)
NoteWrite(h, e, p) ==
  IF p # "writeConfigRead" THEN h
  ELSE [h EXCEPT !.cfg = Overlay(@,
          IF e.event = "SET_CONFIG" THEN AsMap(e.config)
          ELSE AsMap(<< <<"ADMIN_PASS", Md5(e.password)>> >>))]

\* readConfig, lines 1036-1039, then the dispatch and the handler's first
\* segment
ReadConfig(r) ==
  /\ pc[r] = "readConfig"
  /\ config' = ParseConfigStr(configRow)
  /\ LET s == Dispatch(ev[r], config', accessToken, now)
         g == GetCommentSetStmt(db, s.loc.fields)
     IN  /\ IF s.pc = "adminSet"
            THEN /\ db' = g.db
                 /\ Goto(r, s.pc, [s.loc EXCEPT !.snap = comment, !.stmt = g.stmt],
                         s.res)
            ELSE /\ db' = db
                 /\ Goto(r, s.pc, [s.loc EXCEPT !.snap = comment], s.res)
         /\ hist' = NoteWrite(hist, ev[r], s.pc)
  /\ UNCHANGED <<now, dbVars, accessToken, requestTimes, uuidSeq, bgTasks, ev, own>>

----------------------------------------------------------------------------
(* COMMENT_GET *)

\* event.before ?? MAX_TIMESTAMP_MILLIS
BeforeOrMax(e) == IF e.before = NoCursor THEN MAX_TIMESTAMP_MILLIS ELSE e.before

\* !event.before
NoBefore(e) == e.before = NoCursor \/ e.before = 0

\* commentGet, lines 533-535: the count query; the main query is issued
GetCount(r) ==
  /\ pc[r] = "getCount"
  /\ Goto(r, "getMain",
          [loc[r] EXCEPT !.count = CommentCountQuery(comment, ev[r].url,
                                     SpamArg(loc[r].isAdminUser), loc[r].uid)],
          res[r])
  /\ UNCHANGED <<now, dbVars, globVars, uuidSeq, bgTasks, ev, own, hist>>

\* main.splice(limit, 1) when main.length > limit
\* (faulty variant: the extra row stays)
SpliceKeepsExtra(main, limit) == main
Splice(main, limit) ==
  IF Len(main) > limit
  THEN SubSeq(main, 1, limit) \o SubSeq(main, limit + 2, Len(main))
  ELSE main

\* more = main.length > limit
More(main, limit) == Len(main) > limit

\* !config.TOP_DISABLED && !event.before
\* (faulty variant: without && !event.before)
WantTopAlways(cfg, e) == ~Truthy(cfg, "TOP_DISABLED")
WantTop(cfg, e) == ~Truthy(cfg, "TOP_DISABLED") /\ NoBefore(e)

\* commentGet, lines 567-570: getReplyQuery(main.length) and its bind are
\* called, whatever the length, and the query is issued; args are the ids
\* bound after url, the spam argument and uid
ToReply(r, l) ==
  LET g == GetReplyQuery(db, Len(l.main))
  IN  /\ db' = g.db
      /\ Goto(r, "getReply",
              [l EXCEPT !.stmt = g.stmt, !.args = l.main], res[r])

\* commentGet, lines 538-553: the main query, more and the splice
GetMain(r) ==
  /\ pc[r] = "getMain"
  /\ \E s \in CommentQuery(comment, ev[r].url, SpamArg(loc[r].isAdminUser),
                           loc[r].uid, BeforeOrMax(ev[r]), FALSE,
                           loc[r].limit + 1) :
       LET l == [loc[r] EXCEPT !.more = More(s, loc[r].limit),
                               !.main = Splice(s, loc[r].limit),
                               !.page = Splice(s, loc[r].limit),
                               !.snap = comment]
       IN  IF WantTop(config, ev[r])
           THEN db' = db /\ Goto(r, "getTop", l, res[r])
           ELSE ToReply(r, l)
  /\ UNCHANGED <<now, dbVars, config, accessToken, requestTimes, uuidSeq,
                 bgTasks, ev, own, hist>>

\* commentGet, lines 555-565: the pinned comments, put before the page
GetTop(r) ==
  /\ pc[r] = "getTop"
  /\ \E s \in CommentQuery(comment, ev[r].url, SpamArg(loc[r].isAdminUser),
                           loc[r].uid, MAX_TIMESTAMP_MILLIS, TRUE,
                           MAX_QUERY_LIMIT) :
       ToReply(r, [loc[r] EXCEPT !.top = s, !.main = s \o loc[r].main])
  /\ UNCHANGED <<now, dbVars, config, accessToken, requestTimes, uuidSeq,
                 bgTasks, ev, own, hist>>

\* commentGet, lines 567-573: the replies of the rows in main; parseComment
\* lists the rows without rid in the order of main, each with its replies
GetReply(r) ==
  /\ pc[r] = "getReply"
  /\ Goto(r, "done", loc[r],
          [res[r] EXCEPT
             !.data = loc[r].main,
             !.reply = ReplyQuery(comment, ev[r].url, SpamArg(loc[r].isAdminUser),
                                  loc[r].uid,
                                  {loc[r].args[k] : k \in 1..loc[r].stmt.n}),
             !.more = loc[r].more,
             !.count = loc[r].count])
  /\ UNCHANGED <<now, dbVars, globVars, uuidSeq, bgTasks, ev, own, hist>>

----------------------------------------------------------------------------
(* COMMENT_SUBMIT *)

\* limitFilter, line 890
IpLimitHit(cnt, lim) == cnt > lim
\* limitFilter, line 891
AllLimitHit(cnt, lim) == cnt > lim

\* limitFilter, lines 882-885: the count of this IP's comments arrives
LimitCountByIp(r) ==
  /\ pc[r] = "limitFilter"
  /\ ~loc[r].gotIp
  /\ Goto(r, "limitFilter",
          [loc[r] EXCEPT !.gotIp = TRUE,
             !.cntIp = CommentCountSinceByIpQuery(comment, loc[r].since, ev[r].ip)],
          res[r])
  /\ UNCHANGED <<now, dbVars, globVars, uuidSeq, bgTasks, ev, own, hist>>

\* limitFilter, lines 886-887: the count of all comments arrives
LimitCountAll(r) ==
  /\ pc[r] = "limitFilter"
  /\ ~loc[r].gotAll
  /\ Goto(r, "limitFilter",
          [loc[r] EXCEPT !.gotAll = TRUE,
             !.cntAll = CommentCountSinceQuery(comment, loc[r].since)],
          res[r])
  /\ UNCHANGED <<now, dbVars, globVars, uuidSeq, bgTasks, ev, own, hist>>

\* limitFilter, lines 888-891: both counts are there; the decision
LimitDecide(r) ==
  /\ pc[r] = "limitFilter"
  /\ loc[r].gotIp /\ loc[r].gotAll
  /\ IF IpLimitHit(loc[r].cntIp, loc[r].limIp)
     THEN Goto(r, "done", loc[r], Thrown("rate ip"))
     ELSE IF AllLimitHit(loc[r].cntAll, loc[r].limAll)
     THEN Goto(r, "done", loc[r], Thrown("rate all"))
     ELSE Goto(r, "captcha", [loc[r] EXCEPT !.trail = @ \o <<"limit">>], res[r])
  /\ UNCHANGED <<now, dbVars, globVars, uuidSeq, bgTasks, ev, own, hist>>

\* checkCaptcha, line 895
CaptchaOn(cfg) ==
  Truthy(cfg, "TURNSTILE_SITE_KEY") /\ Truthy(cfg, "TURNSTILE_SECRET_KEY")

\* checkCaptcha, lines 894-920: without both keys nothing is checked; with
\* them the verification service answers ok or not
Captcha(r, ok) ==
  /\ pc[r] = "captcha"
  /\ ~CaptchaOn(config) => ok
  /\ IF ok
     THEN Goto(r, "parse", [loc[r] EXCEPT !.trail = @ \o <<"captcha">>], res[r])
     ELSE Goto(r, "done", loc[r], Thrown("captcha"))
  /\ UNCHANGED <<now, dbVars, globVars, uuidSeq, bgTasks, ev, own, hist>>

\* equalsMail(comment.mail, config.BLOGGER_EMAIL)
EqualsMail(mail, cfg) ==
  mail # NoMail /\ HasKey(cfg, "BLOGGER_EMAIL") /\ Field(cfg, "BLOGGER_EMAIL") = mail

\* parse, line 844
\* (faulty variant: the check is left out)
BloggerRejectedNever(mail, cfg, tok) == FALSE
BloggerRejected(mail, cfg, tok) == EqualsMail(mail, cfg) /\ ~IsAdmin(cfg, tok)

\* parse, lines 846-864: the record built from the event
CommentDo(e, cfg, tok, t, spam) ==
  Row(tok, e.ip, e.url, IF e.pid # NoId THEN e.pid ELSE e.rid, e.rid,
      IF IsAdmin(cfg, tok) THEN FALSE ELSE spam, t, t, <<>>, FALSE)

\* parse, lines 840-871, and save up to its INSERT (line 814); verdict is
\* what preCheckSpam does: "ok", "spam" or "throw"
Parse(r, verdict) ==
  /\ pc[r] = "parse"
  /\ IsAdmin(config, accessToken) => verdict = "ok"
  /\ Cardinality(DOMAIN comment) < MaxComments
  /\ IF BloggerRejected(ev[r].mail, config, accessToken)
     THEN Goto(r, "done", loc[r], Thrown("blogger")) /\ UNCHANGED uuidSeq
     ELSE IF verdict = "throw"
     THEN Goto(r, "done", loc[r], Thrown("precheck")) /\ UNCHANGED uuidSeq
     ELSE /\ Goto(r, "save",
                  [loc[r] EXCEPT
                     !.data = CommentDo(ev[r], config, accessToken, now,
                                        verdict = "spam"),
                     !.newId = Uuid(uuidSeq + 2),
                     !.trail = @ \o <<"parse">>],
                  res[r])
          /\ uuidSeq' = uuidSeq + 2
  /\ UNCHANGED <<now, dbVars, globVars, bgTasks, ev, own, hist>>

\* save, lines 815-822, then commentSubmit, lines 786-795: the INSERT; the
\* id is put in the response and postSubmit starts
Save(r) ==
  /\ pc[r] = "save"
  /\ comment' = comment @@ (loc[r].newId :> loc[r].data)
  /\ bgTasks' = bgTasks @@ (loc[r].newId :> "postSubmit")
  /\ Goto(r, "postSubmit", [loc[r] EXCEPT !.trail = @ \o <<"save">>],
          [res[r] EXCEPT !.id = loc[r].newId])
  /\ UNCHANGED <<now, configRow, counter, globVars, uuidSeq, ev, own, hist>>

\* commentSubmit, lines 792-809: postSubmit has ended or the 5 second timer
\* has fired; the response is returned
SubmitRespond(r) ==
  /\ pc[r] = "postSubmit"
  /\ Goto(r, "done", loc[r], res[r])
  /\ UNCHANGED <<now, dbVars, globVars, uuidSeq, bgTasks, ev, own, hist>>

Drop(f, k) == [x \in DOMAIN f \ {k} |-> f[x]]

\* updateIsSpamStmt
UpdateIsSpam(tbl, id, spam, ts) ==
  IF id \in DOMAIN tbl
  THEN [tbl EXCEPT ![id].isSpam = spam, ![id].updated = ts]
  ELSE tbl

\* postSubmit, lines 830-836, with saveSpamCheckResult, lines 922-925:
\* postCheckSpam answers spam or not and the UPDATE is done with
\* Date.now(); sendNotice follows and the task ends
PostSubmit(id, spam) ==
  /\ id \in DOMAIN bgTasks
  /\ comment' = UpdateIsSpam(comment, id, spam, now)
  /\ bgTasks' = Drop(bgTasks, id)
  /\ UNCHANGED <<now, configRow, counter, globVars, uuidSeq, slotVars, hist>>

\* postSubmit, line 832: postCheckSpam throws; the error is logged
\* (commentSubmit, lines 796-800) and the task ends
\* (faulty variant: the failure takes the comment back)
PostSubmitRollsBack(id) ==
  /\ id \in DOMAIN bgTasks
  /\ bgTasks' = Drop(bgTasks, id)
  /\ comment' = Drop(comment, id)
  /\ UNCHANGED <<now, configRow, counter, globVars, uuidSeq, slotVars, hist>>
PostSubmitThrows(id) ==
  /\ id \in DOMAIN bgTasks
  /\ bgTasks' = Drop(bgTasks, id)
  /\ UNCHANGED <<now, dbVars, globVars, uuidSeq, slotVars, hist>>

----------------------------------------------------------------------------
(* COMMENT_LIKE *)

\* like, lines 747-754: push the uid if it is not in the list, else filter
\* it out
\* (faulty variant: always push)
TogglePushOnly(likes, uid) == Append(likes, uid)
Toggle(likes, uid) ==
  LET other(x) == x # uid
  IN  IF uid \notin Range(likes) THEN Append(likes, uid)
      ELSE SelectSeq(likes, other)

\* updateLikeStmt
UpdateLike(tbl, id, likes) ==
  IF id \in DOMAIN tbl THEN [tbl EXCEPT ![id].like = likes] ELSE tbl

\* like, lines 745-754: the row is read; without a row nothing is done,
\* else the new list is computed and the UPDATE is issued
LikeRead(r) ==
  /\ pc[r] = "likeRead"
  /\ IF ev[r].id \notin DOMAIN comment
     THEN Goto(r, "done", loc[r], res[r])
     ELSE Goto(r, "likeWrite",
               [loc[r] EXCEPT !.likes = Toggle(comment[ev[r].id].like, loc[r].uid)],
               res[r])
  /\ UNCHANGED <<now, dbVars, globVars, uuidSeq, bgTasks, ev, own, hist>>

\* like, line 755: the UPDATE; commentLike returns {}
LikeWrite(r) ==
  /\ pc[r] = "likeWrite"
  /\ comment' = UpdateLike(comment, ev[r].id, loc[r].likes)
  /\ Goto(r, "done", loc[r], res[r])
  /\ UNCHANGED <<now, configRow, counter, globVars, uuidSeq, bgTasks, ev, own, hist>>

----------------------------------------------------------------------------
(* COUNTER_GET *)

\* incCounterStmt: INSERT ... ON CONFLICT (url) DO UPDATE
\* (faulty variant: INSERT OR REPLACE, the count starts again at 1)
IncCounterInsertOnly(tbl, url, title, ts) ==
  (url :> [title |-> title, time |-> 1, created |-> ts, updated |-> ts]) @@ tbl
IncCounter(tbl, url, title, ts) ==
  IF url \in DOMAIN tbl
  THEN [tbl EXCEPT ![url].time = @ + 1, ![url].title = title, ![url].updated = ts]
  ELSE tbl @@ (url :> [title |-> title, time |-> 1, created |-> ts, updated |-> ts])

\* the increments executed so far (observation)
NoteInc(h, url, title) ==
  [h EXCEPT !.incs[url] = @ + 1, !.title[url] = title]

\* counterGet, line 935: the upsert; the read of time is issued
CounterInc(r) ==
  /\ pc[r] = "counterInc"
  /\ counter' = IncCounter(counter, ev[r].url, ev[r].title, loc[r].ts)
  /\ hist' = NoteInc(hist, ev[r].url, ev[r].title)
  /\ Goto(r, "counterRead", loc[r], res[r])
  /\ UNCHANGED <<now, comment, configRow, globVars, uuidSeq, bgTasks, ev, own>>

\* counterGet, line 936: SELECT time
CounterRead(r) ==
  /\ pc[r] = "counterRead"
  /\ Goto(r, "done", loc[r],
          [res[r] EXCEPT !.time = IF ev[r].url \in DOMAIN counter
                                  THEN counter[ev[r].url].time ELSE 0])
  /\ UNCHANGED <<now, dbVars, globVars, uuidSeq, bgTasks, ev, own, hist>>

----------------------------------------------------------------------------
(* writeConfig, called by SET_CONFIG and SET_PASSWORD *)

\* writeConfig, line 1046: readConfig sets the global config; the merged
\* object is built and the UPDATE is issued
WriteConfigRead(r) ==
  /\ pc[r] = "writeConfigRead"
  /\ config' = ParseConfigStr(configRow)
  /\ Goto(r, "writeConfigWrite",
          [loc[r] EXCEPT !.merged = Spread(config', loc[r].merged)], res[r])
  /\ UNCHANGED <<now, dbVars, accessToken, requestTimes, db, uuidSeq, bgTasks,
                 ev, own, hist>>

\* writeConfig, line 1047: UPDATE config SET value = ?1; setConfig and
\* setPassword return SUCCESS
WriteConfigWrite(r) ==
  /\ pc[r] = "writeConfigWrite"
  /\ configRow' = JsonStringify(loc[r].merged)
  /\ Goto(r, "done", loc[r], [res[r] EXCEPT !.code = "SUCCESS"])
  /\ UNCHANGED <<now, comment, counter, globVars, uuidSeq, bgTasks, ev, own, hist>>

----------------------------------------------------------------------------
(* Admin operations *)

\* commentSetStmtTemplate with the SET list of stmt, run with args: the k-th
\* argument goes to the k-th field of the list, the one after the list to
\* WHERE _id = ?
CommentSet(tbl, stmt, args) ==
  LET id == args[Len(stmt.fields) + 1]
      at(f) == CHOOSE k \in DOMAIN stmt.fields : stmt.fields[k] = f
      set(f, old) == IF f \in Range(stmt.fields) THEN args[at(f)] ELSE old
  IN  IF id \in DOMAIN tbl
      THEN [tbl EXCEPT ![id].created = set("created", @), ![id].ip = set("ip", @),
                       ![id].isSpam = set("isSpam", @),
                       ![id].top = set("top", @), ![id].url = set("url", @)]
      ELSE tbl

\* commentSetForAdmin, lines 619-622
AdminSet(r) ==
  /\ pc[r] = "adminSet"
  /\ comment' = CommentSet(comment, loc[r].stmt, loc[r].args)
  /\ Goto(r, "done", loc[r], [res[r] EXCEPT !.code = "SUCCESS"])
  /\ UNCHANGED <<now, configRow, counter, globVars, uuidSeq, bgTasks, ev, own, hist>>

\* commentDeleteForAdmin, lines 636-637
AdminDelete(r) ==
  /\ pc[r] = "adminDelete"
  /\ comment' = Drop(comment, ev[r].id)
  /\ Goto(r, "done", loc[r], [res[r] EXCEPT !.code = "SUCCESS"])
  /\ UNCHANGED <<now, configRow, counter, globVars, uuidSeq, bgTasks, ev, own, hist>>

\* event.type === 'VISIBLE' ? 1 : event.type === 'HIDDEN' ? 0 : 2
\* (faulty variant: 2 whatever the type)
TypeArgAll(type) == 2
TypeArg(type) == IF type = "VISIBLE" THEN 1 ELSE IF type = "HIDDEN" THEN 0 ELSE 2

\* column LIKE '%keyword%': the keyword is absent ('%%'), or the whole of
\* the text; no text of the model lies inside another
Like(text, keyword) == keyword = "" \/ text = keyword

\* the rows commentForAdminCountQuery and commentForAdminQuery select; of
\* the seven text columns the rows here have ip and url
AdminRows(tbl, type, keyword) ==
  {i \in DOMAIN tbl :
     /\ SpamNum(tbl[i].isSpam) # TypeArg(type)
     /\ (Like(tbl[i].ip, keyword) \/ Like(tbl[i].url, keyword))}

\* commentGetForAdmin, lines 587-593: the count
AdminCount(r) ==
  /\ pc[r] = "adminCount"
  /\ Goto(r, "adminQuery",
          [loc[r] EXCEPT !.count =
             Cardinality(AdminRows(comment, ev[r].type, ev[r].keyword))],
          res[r])
  /\ UNCHANGED <<now, dbVars, globVars, uuidSeq, bgTasks, ev, own, hist>>

\* OFFSET n
Offset(s, n) == SubSeq(s, n + 1, Len(s))

\* commentGetForAdmin, lines 594-604: LIMIT per OFFSET per * (page - 1) of
\* the rows, newest first
AdminQuery(r) ==
  /\ pc[r] = "adminQuery"
  /\ \E s \in OrderedDesc(comment, AdminRows(comment, ev[r].type, ev[r].keyword)) :
       Goto(r, "done", loc[r],
            [res[r] EXCEPT !.code = "SUCCESS", !.count = loc[r].count,
                           !.data = Limit(Offset(s, ev[r].per * (ev[r].page - 1)),
                                          ev[r].per)])
  /\ UNCHANGED <<now, dbVars, globVars, uuidSeq, bgTasks, ev, own, hist>>

\* every order of the rows S (a SELECT without ORDER BY)
AnyOrder(S) ==
  {s \in [1..Cardinality(S) -> S] : \A i, j \in DOMAIN s : i # j => s[i] # s[j]}

\* commentExportForAdmin, lines 707-709
AdminExport(r) ==
  /\ pc[r] = "adminExport"
  /\ \E s \in AnyOrder(DOMAIN comment) :
       Goto(r, "done", loc[r], [res[r] EXCEPT !.code = "SUCCESS", !.data = s])
  /\ UNCHANGED <<now, dbVars, globVars, uuidSeq, bgTasks, ev, own, hist>>

\* commentImportForAdmin, lines 688-694, with save: the next record gets a
\* new _id and its insert is run.  The insert succeeds, and after the last
\* record 'success' is logged; or it rejects, the catch of line 690 logs the
\* message and the loop is left.  Either way the response is SUCCESS with
\* the log.
AdminImport(r) ==
  /\ pc[r] = "adminImport"
  /\ uuidSeq' = uuidSeq + 1
  /\ \E ok \in BOOLEAN :
       IF ok
       THEN /\ Cardinality(DOMAIN comment) < MaxComments
            /\ comment' = comment @@ (Uuid(uuidSeq + 1) :> Head(loc[r].pending))
            /\ IF Tail(loc[r].pending) = <<>>
               THEN Goto(r, "done", [loc[r] EXCEPT !.pending = <<>>],
                         [res[r] EXCEPT !.code = "SUCCESS",
                                        !.log = Append(@, "success")])
               ELSE Goto(r, "adminImport", [loc[r] EXCEPT !.pending = Tail(@)],
                         res[r])
       ELSE /\ comment' = comment
            /\ Goto(r, "done", loc[r],
                    [res[r] EXCEPT !.code = "SUCCESS", !.log = Append(@, "error")])
  /\ UNCHANGED <<now, configRow, counter, globVars, bgTasks, ev, own, hist>>

----------------------------------------------------------------------------
(* The response is sent and the slot is free again *)

\* May the holder of token tok see the row: it is not marked spam, or it is
\* the holder's own, or the holder is the admin
CanSee(row, cfg, tok) == ~row.isSpam \/ row.uid = tok \/ IsAdmin(cfg, tok)

\* The non-pinned top-level comments of a page that tok may see
Threads(tbl, url, cfg, tok) ==
  {i \in DOMAIN tbl : /\ tbl[i].url = url /\ tbl[i].rid = NoId /\ ~tbl[i].top
                      /\ CanSee(tbl[i], cfg, tok)}

\* the oldest created value among the rows S of tbl
Oldest(tbl, S) == CHOOSE c \in {tbl[i].created : i \in S} :
                    \A i \in S : c <= tbl[i].created

\* What the client of a completed COMMENT_GET has seen: the page, its oldest
\* created value, and the comments that existed then and are as old or older
ObserveGet(h, e, o, l, rs) ==
  IF e.url = NoUrl \/ l.page = <<>> THEN [h EXCEPT !.get = Hist0.get]
  ELSE LET b == Oldest(l.snap, Range(l.page))
       IN  [h EXCEPT !.get =
              [valid |-> TRUE, url |-> e.url, own |-> o, main |-> Range(l.page),
               boundary |-> b,
               rest |-> {i \in Threads(l.snap, e.url, config, o) \ Range(l.page) :
                           l.snap[i].created <= b}]]

\* What a completed COMMENT_LIKE leaves to compare the next one with: the
\* comment, the caller, and the members of the like list before the call
ObserveLike(h, e, o, l, rs) ==
  IF e.id \in DOMAIN l.snap
  THEN [h EXCEPT !.like = [valid |-> TRUE, id |-> e.id, own |-> o,
                           pre |-> Range(l.snap[e.id].like)]]
  ELSE h

Observe(h, e, o, l, rs) ==
  CASE e.event = "COMMENT_GET" -> ObserveGet(h, e, o, l, rs)
    [] e.event = "COMMENT_LIKE" -> ObserveLike(h, e, o, l, rs)
    [] OTHER -> h

Finish(r) ==
  /\ pc[r] = "done"
  /\ pc' = [pc EXCEPT ![r] = "idle"]
  /\ ev' = [ev EXCEPT ![r] = Ev]
  /\ own' = [own EXCEPT ![r] = NoToken]
  /\ loc' = [loc EXCEPT ![r] = Loc0]
  /\ res' = [res EXCEPT ![r] = Res0]
  /\ hist' = Observe(hist, ev[r], own[r], loc[r], res[r])
  /\ UNCHANGED <<now, dbVars, globVars, uuidSeq, bgTasks>>

\* no request is being handled
Quiet == \A q \in Reqs : pc[q] = "idle"
\* the slot that requests handled one after another use
SeqSlot == CHOOSE r \in Reqs : TRUE

Obj(pairs) == pairs

----------------------------------------------------------------------------
(* Submissions handled one after another *)

SubmitConfigs ==
  { Obj(<< <<"ADMIN_PASS", Md5(AdminToken)>>, <<"BLOGGER_EMAIL", BloggerMail>>,
           <<"LIMIT_PER_MINUTE", 1>>, <<"TURNSTILE_SITE_KEY", 1>>,
           <<"TURNSTILE_SECRET_KEY", 1>> >>) }

SubmitEvents ==
  { [Ev EXCEPT !.event = "COMMENT_SUBMIT", !.accessToken = f[1], !.mail = f[2],
               !.url = f[3], !.hasBody = f[4]] :
      f \in { <<2, NoMail, "/a", TRUE>>, <<2, BloggerMail, "/a", TRUE>>,
              <<AdminToken, BloggerMail, "/a", TRUE>>,
              <<2, NoMail, NoUrl, TRUE>>, <<2, NoMail, "/a", FALSE>> } }

InitSubmit == \E o \in SubmitConfigs : InitWith(JsonStringify(o), NoTable)

Background ==
  \/ \E id \in DOMAIN bgTasks, spam \in BOOLEAN : PostSubmit(id, spam)
  \/ \E id \in DOMAIN bgTasks : PostSubmitThrows(id)

SubmitSteps(r) ==
  \/ LimitCountByIp(r)
  \/ LimitCountAll(r)
  \/ LimitDecide(r)
  \/ \E ok \in BOOLEAN : Captcha(r, ok)
  \/ \E verdict \in {"ok", "spam", "throw"} : Parse(r, verdict)
  \/ Save(r)
  \/ SubmitRespond(r)

NextSubmit ==
  \/ Tick
  \/ \E e \in SubmitEvents : Quiet /\ Begin(SeqSlot, e)
  \/ ReadConfig(SeqSlot)
  \/ SubmitSteps(SeqSlot)
  \/ Finish(SeqSlot)
  \/ Background

SpecSubmit == InitSubmit /\ [][NextSubmit]_vars

----------------------------------------------------------------------------
(* Claims about COMMENT_SUBMIT, requests handled one after another *)

\* The stored configuration
Stored == ParseConfigStr(configRow)

\* The comments of one IP that lie within the window at time t
InWindow(tbl, ip, t) ==
  {i \in DOMAIN tbl : tbl[i].ip = ip /\ t - tbl[i].created < WindowMs}

\* Slot r holds a submission that reached the rate-limit decision, with a
\* per-IP threshold T > 0 and the global limit not reached
Decided(r) ==
  /\ ev[r].event = "COMMENT_SUBMIT"
  /\ pc[r] = "done"
  /\ loc[r].gotIp /\ loc[r].gotAll
  /\ loc[r].limIp > 0
  /\ ~AllLimitHit(loc[r].cntAll, loc[r].limAll)

\* The request of slot r is the k-th submission of its IP within the window
NthInWindow(r, k) ==
  Cardinality(InWindow(loc[r].snap, ev[r].ip, loc[r].since + WindowMs)) + 1 = k

RateLimited(r) == res[r].code = "FAIL" /\ res[r].message = "rate ip"

\* C6: with per-IP threshold T > 0, the T-th submission of one IP within the
\* 10 minute window passes the rate limit, and the (T+1)-th is rejected with
\* the rate-limit error and persists nothing.
C6_RateLimitAtThreshold ==
  \A r \in Reqs : Decided(r) =>
    /\ NthInWindow(r, loc[r].limIp) => ~RateLimited(r)
    /\ NthInWindow(r, loc[r].limIp + 1) =>
         RateLimited(r) /\ DOMAIN comment = DOMAIN loc[r].snap

\* Slot r has persisted its record
Persisted(r) ==
  /\ ev[r].event = "COMMENT_SUBMIT"
  /\ pc[r] \in {"postSubmit", "done"}
  /\ res[r].id # NoId

\* Only isSpam and updated of the rows of old differ in new, and new has no
\* other rows
SameRows(old, new) ==
  /\ DOMAIN new = DOMAIN old
  /\ \A i \in DOMAIN old :
       [new[i] EXCEPT !.isSpam = FALSE, !.updated = 0] =
       [old[i] EXCEPT !.isSpam = FALSE, !.updated = 0]

\* C10: COMMENT_SUBMIT persists a record only after validation, the
\* rate-limit check, the bot-challenge check and record building (with the
\* rejection of the site-owner mail used without admin identity) have
\* succeeded, in that order; until then, and when a step fails (the request
\* ends with an error), the comment table holds the rows it held when the
\* request started.
C10_PipelineLinear ==
  \A r \in Reqs : ev[r].event = "COMMENT_SUBMIT" =>
    /\ Persisted(r) =>
         /\ loc[r].trail = <<"validate", "limit", "captcha", "parse", "save">>
         /\ ev[r].url # NoUrl /\ ev[r].hasBody
         /\ Cardinality(InWindow(loc[r].snap, ev[r].ip, loc[r].since + WindowMs))
              <= loc[r].limIp
         /\ ~(EqualsMail(ev[r].mail, Stored) /\ ~IsAdmin(Stored, own[r]))
         /\ loc[r].newId \in DOMAIN comment \ DOMAIN loc[r].snap
    /\ ~Persisted(r) /\ pc[r] \notin {"idle", "readConfig"} =>
         SameRows(loc[r].snap, comment)
    /\ pc[r] = "done" /\ ~Persisted(r) => res[r].code = "FAIL"
    /\ pc[r] = "done" /\ res[r].code = "FAIL" => ~Persisted(r)

\* A submission with the site-owner mail and without admin identity has
\* ended with an error, the table holding a row
C10_Witness ==
  \E r \in Reqs :
    /\ ev[r].event = "COMMENT_SUBMIT" /\ pc[r] = "done"
    /\ res[r].code = "FAIL" /\ res[r].message = "blogger"
    /\ loc[r].trail = <<"validate", "limit", "captcha">>
    /\ DOMAIN comment # {}

----------------------------------------------------------------------------
(* Reads of a page, with submissions in between, one request after another *)

\* Rows a table holds after submissions, imports and admin updates; the
\* reply belongs to the thread of the row with id 1
ReadRowKinds ==
  { Row(3, "ip2", "/a", NoId, NoId, FALSE, TickMs - 1, TickMs - 1, <<>>, FALSE),
    Row(3, "ip2", "/a", NoId, NoId, FALSE, TickMs, TickMs, <<>>, FALSE),
    Row(3, "ip2", "/a", NoId, NoId, TRUE, TickMs, TickMs, <<>>, FALSE),
    Row(2, "ip2", "/a", NoId, NoId, TRUE, TickMs - 1, TickMs - 1, <<>>, FALSE),
    Row(3, "ip2", "/a", NoId, NoId, FALSE, TickMs - 1, TickMs - 1, <<>>, TRUE),
    Row(2, "ip2", "/a", 1, 1, TRUE, TickMs, TickMs, <<>>, FALSE) }

\* a reply has its thread: a top-level row of the same page
RootsThere(tbl) ==
  \A i \in DOMAIN tbl : tbl[i].rid # NoId =>
    /\ tbl[i].rid \in DOMAIN tbl \ {i}
    /\ tbl[tbl[i].rid].rid = NoId
    /\ tbl[tbl[i].rid].url = tbl[i].url

ReadTables ==
  UNION { {t \in [1..n -> ReadRowKinds] : RootsThere(t)} : n \in 0..MaxComments }

ReadConfigs ==
  { Obj(<< <<"ADMIN_PASS", Md5(AdminToken)>>, <<"COMMENT_PAGE_SIZE", 1>> >>),
    Obj(<< <<"ADMIN_PASS", Md5(AdminToken)>>, <<"COMMENT_PAGE_SIZE", 2>> >>),
    Obj(<< <<"ADMIN_PASS", Md5(AdminToken)>>, <<"COMMENT_PAGE_SIZE", 1>>,
           <<"TOP_DISABLED", 1>> >>) }

ReadEvents ==
  { [Ev EXCEPT !.event = "COMMENT_GET", !.accessToken = tok, !.url = "/a",
               !.before = b] :
      tok \in {AdminToken, 2}, b \in {NoCursor, TickMs - 1, TickMs} }
  \cup { [Ev EXCEPT !.event = "COMMENT_SUBMIT", !.accessToken = 3, !.url = "/a",
                    !.hasBody = TRUE] }

InitRead ==
  \E o \in ReadConfigs, t \in ReadTables :
    InitWith(JsonStringify(o), t)

GetSteps(r) == GetCount(r) \/ GetMain(r) \/ GetTop(r) \/ GetReply(r)

NextRead ==
  \/ \E e \in ReadEvents : Quiet /\ Begin(SeqSlot, e)
  \/ ReadConfig(SeqSlot)
  \/ GetSteps(SeqSlot)
  \/ SubmitSteps(SeqSlot)
  \/ Finish(SeqSlot)
  \/ Quiet /\ Background

SpecRead == InitRead /\ [][NextRead]_vars

----------------------------------------------------------------------------
(* Claims about COMMENT_GET, requests handled one after another *)

\* Slot r holds a COMMENT_GET of a page that has been answered
GetDone(r) ==
  ev[r].event = "COMMENT_GET" /\ ev[r].url # NoUrl /\ pc[r] = "done"

\* The non-pinned items of a returned top-level list
Unpinned(tbl, data) ==
  LET keep(i) == ~tbl[i].top IN SelectSeq(data, keep)

\* P lists, newest first, n rows of V such that no row of V left out is
\* newer than a row listed
IsNewest(tbl, V, P, n) ==
  /\ Len(P) = n
  /\ Range(P) \subseteq V
  /\ \A i, j \in DOMAIN P : i < j =>
       P[i] # P[j] /\ tbl[P[i]].created >= tbl[P[j]].created
  /\ \A i \in V \ Range(P), j \in Range(P) : tbl[i].created <= tbl[j].created

\* the configured page size
PageSize == Field(Stored, "COMMENT_PAGE_SIZE")

\* C1: COMMENT_GET without a cursor, on a page holding N non-pinned top-level
\* comments visible to the requester and with configured page size L, returns
\* exactly the min(N, L) newest of them (by created, descending), and
\* more = TRUE if and only if N > L.
C1_FirstPage ==
  \A r \in Reqs : GetDone(r) /\ ev[r].before = NoCursor =>
    LET V == Threads(loc[r].snap, ev[r].url, Stored, own[r])
        N == Cardinality(V)
    IN  /\ IsNewest(loc[r].snap, V, Unpinned(loc[r].snap, res[r].data),
                    Min(N, PageSize))
        /\ res[r].more = (N > PageSize)

\* a first page cut at the page size: two visible comments, page size 1
C1_Witness ==
  \E r \in Reqs :
    /\ GetDone(r) /\ ev[r].before = NoCursor
    /\ Cardinality(Threads(loc[r].snap, ev[r].url, Stored, own[r])) = 2
    /\ PageSize = 1
    /\ res[r].more

\* C2: a COMMENT_GET that passes as before the oldest created value returned
\* by the previous page returns no comment already returned, and skips no
\* visible non-pinned top-level comment that existed at the first call and is
\* older than or as old as that boundary: each such comment is on the page
\* returned, or the page is full down to it and more is TRUE.
C2_MonotonicCursor ==
  \A r \in Reqs :
    /\ GetDone(r) /\ hist.get.valid
    /\ ev[r].url = hist.get.url /\ own[r] = hist.get.own
    /\ ev[r].before = hist.get.boundary
    => LET P == Range(res[r].data)
       IN  /\ P \cap hist.get.main = {}
           /\ \A i \in hist.get.rest \cap Threads(comment, ev[r].url, Stored, own[r]) :
                \/ i \in P
                \/ /\ res[r].more
                   /\ \A j \in P : comment[j].created >= comment[i].created

\* the visible pinned top-level comments of a page
Pins(tbl, url, cfg, tok) ==
  {i \in DOMAIN tbl : /\ tbl[i].url = url /\ tbl[i].rid = NoId /\ tbl[i].top
                      /\ CanSee(tbl[i], cfg, tok)}

C4_Visibility ==
  \A r \in Reqs : GetDone(r) =>
    LET tbl == loc[r].snap
        data == Range(res[r].data)
        mine(i) == /\ tbl[i].url = ev[r].url /\ tbl[i].uid = own[r]
                   /\ tbl[i].isSpam
    IN  /\ \A i \in data \cup res[r].reply : CanSee(tbl[i], Stored, own[r])
        /\ \A i \in DOMAIN tbl : mine(i) /\ tbl[i].rid \in data => i \in res[r].reply
        /\ \A i \in DOMAIN tbl :
             mine(i) /\ tbl[i].rid = NoId /\ ~tbl[i].top
                     /\ tbl[i].created < BeforeOrMax(ev[r])
             => i \in data \/ res[r].more
        /\ res[r].count =
             Cardinality({i \in DOMAIN tbl : /\ tbl[i].url = ev[r].url
                                             /\ tbl[i].rid = NoId
                                             /\ CanSee(tbl[i], Stored, own[r])})

\* a requester who is not admin gets their own hidden comment and not the
\* hidden comment of another author
C4_Witness ==
  \E r \in Reqs :
    /\ GetDone(r) /\ ~IsAdmin(Stored, own[r])
    /\ \E i \in Range(res[r].data) :
         loc[r].snap[i].isSpam /\ loc[r].snap[i].uid = own[r]
    /\ \E j \in DOMAIN loc[r].snap \ Range(res[r].data) :
         /\ loc[r].snap[j].isSpam /\ loc[r].snap[j].uid # own[r]
         /\ loc[r].snap[j].url = ev[r].url /\ loc[r].snap[j].rid = NoId

----------------------------------------------------------------------------
(* Likes, one request after another *)

\* like lists without duplicates
LikeLists == { <<>>, <<3>>, <<2, 3>> }

LikeTables ==
  UNION { [1..n -> { Row(3, "ip2", "/a", NoId, NoId, FALSE, TickMs, TickMs, l, FALSE) :
                       l \in LikeLists }] : n \in 1..MaxComments }

LikeEvents ==
  { [Ev EXCEPT !.event = "COMMENT_LIKE", !.accessToken = tok, !.id = id] :
      tok \in {2, 3}, id \in {NoId, 1, MaxComments + 1} }

InitLike == \E t \in LikeTables : InitWith(EmptyRow, t)

LikeSteps(r) == LikeRead(r) \/ LikeWrite(r)

NextLike ==
  \/ \E e \in LikeEvents : Quiet /\ Begin(SeqSlot, e)
  \/ ReadConfig(SeqSlot)
  \/ LikeSteps(SeqSlot)
  \/ Finish(SeqSlot)

SpecLike == InitLike /\ [][NextLike]_vars

\* Slot r holds a COMMENT_LIKE with an id that has been answered
LikeDone(r) == ev[r].event = "COMMENT_LIKE" /\ ev[r].id # NoId /\ pc[r] = "done"

\* the call in slot r follows a call of the same identity on the same
\* comment, with no other toggle of that comment in between
SecondToggle(r) ==
  hist.like.valid /\ hist.like.id = ev[r].id /\ hist.like.own = own[r]

\* C7: for a caller acting alone, one COMMENT_LIKE changes the membership of
\* the caller in the comment's like set and of no other identity, and
\* nothing else in the table; two successive calls by the same identity on
\* the same comment leave the set with the membership it had; a call on an
\* id that no comment has changes nothing.
C7_LikeInvolution ==
  \A r \in Reqs : LikeDone(r) =>
    LET id == ev[r].id
        old == loc[r].snap
    IN  IF id \notin DOMAIN old THEN comment = old
        ELSE LET S == Range(old[id].like)
                 T == Range(comment[id].like)
             IN  /\ (S \ T) \cup (T \ S) = {own[r]}
                 /\ [comment EXCEPT ![id].like = <<>>] = [old EXCEPT ![id].like = <<>>]
                 /\ Cardinality(T) = Len(comment[id].like)
                 /\ SecondToggle(r) => T = hist.like.pre

\* a member of a set of two has toggled twice and is a member again
C7_Witness ==
  \E r \in Reqs :
    /\ LikeDone(r) /\ SecondToggle(r)
    /\ hist.like.pre = {2, 3} /\ own[r] = 2
    /\ Range(comment[ev[r].id].like) = {2, 3}

----------------------------------------------------------------------------
(* Page-view counters, requests handled at once *)

CounterEvents ==
  { [Ev EXCEPT !.event = "COUNTER_GET", !.url = f[1], !.title = f[2]] :
      f \in { <<"/a", "t1">>, <<"/a", "t2">>, <<"/b", "t1">>, <<NoUrl, "t1">> } }

InitCounter == InitWith(EmptyRow, NoTable)

CounterSteps(r) == CounterInc(r) \/ CounterRead(r)

NextCounter ==
  \/ \E r \in Reqs, e \in CounterEvents : Begin(r, e)
  \/ \E r \in Reqs : ReadConfig(r)
  \/ \E r \in Reqs : CounterSteps(r)
  \/ \E r \in Reqs : Finish(r)

SpecCounter == InitCounter /\ [][NextCounter]_vars

\* the stored hit count of a url; 0 without a record
Hits(tbl, u) == IF u \in DOMAIN tbl THEN tbl[u].time ELSE 0

\* C9: under any interleaving of concurrent COUNTER_GET requests, the stored
\* hit count of a url equals the number of increments executed on it (the
\* first one creating the record with 1), the stored title is the title
\* argument of the increment applied last, and the hit count of a url never
\* decreases.
C9_CounterNoLostUpdate ==
  /\ [](\A u \in Urls :
          /\ Hits(counter, u) = hist.incs[u]
          /\ u \in DOMAIN counter => counter[u].title = hist.title[u])
  /\ [][\A u \in Urls : Hits(counter', u) >= Hits(counter, u)]_vars

\* two requests are between their increment and their read of the same url,
\* the record holding both increments
C9_Witness ==
  \E r, q \in Reqs :
    /\ r # q
    /\ pc[r] = "counterRead" /\ pc[q] = "counterRead"
    /\ ev[r].url = ev[q].url /\ ev[r].title # ev[q].title
    /\ Hits(counter, ev[r].url) = 2

----------------------------------------------------------------------------
(* Configuration writes, one request after another *)

\* The value of the config row at the start: '' (first run), or a map
ConfigRows ==
  { EmptyRow, JsonStringify(Obj(<<>>)),
    JsonStringify(Obj(<< <<"ADMIN_PASS", Md5(AdminToken)>>, <<"a", 1>> >>)) }

\* the maps SET_CONFIG is called with
ConfigMaps ==
  { Obj(<<>>), Obj(<< <<"a", 1>> >>), Obj(<< <<"b", 2>> >>),
    Obj(<< <<"b", 3>>, <<"a", 2>> >>) }

ConfigEvents ==
  { [Ev EXCEPT !.event = "SET_CONFIG", !.accessToken = tok, !.config = m] :
      tok \in {AdminToken, 2}, m \in ConfigMaps }
  \cup { [Ev EXCEPT !.event = "SET_PASSWORD", !.accessToken = 2,
                    !.password = AdminToken] }

InitConfig == \E row \in ConfigRows : InitWith(row, NoTable)

ConfigSteps(r) == WriteConfigRead(r) \/ WriteConfigWrite(r)

NextConfig ==
  \/ \E e \in ConfigEvents : Quiet /\ Begin(SeqSlot, e)
  \/ ReadConfig(SeqSlot)
  \/ ConfigSteps(SeqSlot)
  \/ Finish(SeqSlot)

SpecConfig == InitConfig /\ [][NextConfig]_vars

\* no writeConfig call is under way
NoWriteUnderWay == \A r \in Reqs : pc[r] \in {"idle", "readConfig", "done"}

----------------------------------------------------------------------------
(* Admin operations, requests handled at once *)

AdminOps ==
  {"COMMENT_SET_FOR_ADMIN", "COMMENT_DELETE_FOR_ADMIN", "COMMENT_GET_FOR_ADMIN",
   "COMMENT_IMPORT_FOR_ADMIN", "COMMENT_EXPORT_FOR_ADMIN", "SET_CONFIG"}

\* the segments of the admin operations behind the isAdmin() test
AdminSegments ==
  {"adminSet", "adminDelete", "adminCount", "adminQuery", "adminImport",
   "adminExport", "writeConfigRead", "writeConfigWrite"}

AdminRow == Row(3, "ip2", "/a", NoId, NoId, FALSE, TickMs, TickMs, <<>>, FALSE)

AdminEvents ==
  { [Ev EXCEPT !.event = op, !.accessToken = tok, !.id = 1,
               !.per = MaxComments, !.page = 1,
               !.set = IF op = "COMMENT_SET_FOR_ADMIN"
                       THEN Obj(<< <<"top", TRUE>> >>) ELSE <<>>,
               !.import = IF op = "COMMENT_IMPORT_FOR_ADMIN"
                          THEN <<AdminRow>> ELSE <<>>,
               !.config = IF op = "SET_CONFIG"
                          THEN Obj(<< <<"a", 1>> >>) ELSE <<>>] :
      op \in AdminOps, tok \in {AdminToken, 2} }

InitAdmin ==
  InitWith(JsonStringify(Obj(<< <<"ADMIN_PASS", Md5(AdminToken)>> >>)),
           1 :> AdminRow)

AdminSteps(r) ==
  \/ AdminSet(r)
  \/ AdminDelete(r)
  \/ AdminCount(r)
  \/ AdminQuery(r)
  \/ AdminImport(r)
  \/ AdminExport(r)
  \/ ConfigSteps(r)

NextAdmin ==
  \/ \E r \in Reqs, e \in AdminEvents : Begin(r, e)
  \/ \E r \in Reqs : ReadConfig(r)
  \/ \E r \in Reqs : AdminSteps(r)
  \/ \E r \in Reqs : Finish(r)

SpecAdmin == InitAdmin /\ [][NextAdmin]_vars

\* C5: under any interleaving of concurrently handled requests, an
\* admin-only operation reads or mutates stored data only if the accessToken
\* carried by that same request hashes to the stored admin password;
\* otherwise it answers NEED_LOGIN.
C5_AdminOnly ==
  \A r \in Reqs : ev[r].event \in AdminOps /\ ~IsAdmin(Stored, own[r]) =>
    /\ pc[r] \notin AdminSegments
    /\ pc[r] = "done" => res[r].code = "NEED_LOGIN"

----------------------------------------------------------------------------
(* Claims about the background work of COMMENT_SUBMIT *)

\* the step is the return of commentSubmit by slot r
Responds(r) == pc[r] = "postSubmit" /\ pc'[r] = "done"

\* C11: once COMMENT_SUBMIT has persisted the record, its response carries
\* the new id and no error, whether the background work has succeeded, has
\* thrown or is still running; the return of the response leaves the
\* background work running; background work that ends either leaves the
\* table as it is or writes the spam flag of its own record, with the time
\* of the write; no step of the background work removes a record.
C11_BoundedWait ==
  /\ [](\A r \in Reqs : Persisted(r) /\ pc[r] = "done" =>
          /\ res[r].id = loc[r].newId
          /\ res[r].code = "" /\ res[r].message = ""
          /\ loc[r].newId \in DOMAIN comment)
  /\ [][\A r \in Reqs : Responds(r) => bgTasks' = bgTasks /\ comment' = comment]_vars
  /\ [][\A id \in DOMAIN bgTasks \ DOMAIN bgTasks' :
          /\ DOMAIN comment' = DOMAIN comment
          /\ \/ comment' = comment
             \/ \E spam \in BOOLEAN :
                  comment' = [comment EXCEPT ![id].isSpam = spam,
                                             ![id].updated = now]]_vars

\* the response of the only submission has been sent and its background
\* work is still running
C11_Witness ==
  /\ Quiet
  /\ requestTimes["ip1"] = 1
  /\ \E id \in DOMAIN bgTasks : id \in DOMAIN comment

----------------------------------------------------------------------------
(* Claims about the response and the request guard of fetch *)

\* C12: every response to a request that did not supply an accessToken
\* carries an accessToken field, and a response to a request that did supply
\* one carries none.
C12_TokenEcho ==
  \A r \in Reqs : pc[r] = "done" =>
    (res[r].accessToken # NoToken <=> ev[r].accessToken = NoToken)

\* Requests of one IP up to and beyond the ceiling of protect, and a few of
\* another IP, one after another
GuardEvents ==
  { [Ev EXCEPT !.event = "COUNTER_GET", !.ip = "ip1", !.url = "/a"] }

OtherIpEvents ==
  { [Ev EXCEPT !.event = "COUNTER_GET", !.ip = "ip2", !.url = "/a"] }

InitGuard == InitWith(EmptyRow, NoTable)

NextGuard ==
  \/ \E e \in GuardEvents :
       /\ Quiet
       /\ requestTimes[e.ip] < MAX_REQUEST_TIMES + MaxRequests
       /\ Arrive(SeqSlot, e)
  \/ \E e \in OtherIpEvents : Quiet /\ Begin(SeqSlot, e)
  \/ ReadConfig(SeqSlot)
  \/ CounterSteps(SeqSlot)
  \/ Finish(SeqSlot)

SpecGuard == InitGuard /\ [][NextGuard]_vars

\* the request in slot r has been rejected by the guard
Guarded(r) ==
  /\ pc[r] = "done"
  /\ res[r].code = "FAIL" /\ res[r].message = "Too Many Requests"

\* C13: the k-th request of an IP since the start is rejected with 'Too Many
\* Requests' if and only if k exceeds MAX_REQUEST_TIMES; the count of an IP
\* never decreases; a rejected request goes from its arrival to its response
\* without a config read or a query: the tables and the config are as they
\* were.
C13_RequestGuard ==
  /\ [](\A r \in Reqs : pc[r] # "idle" =>
          (Guarded(r) <=> requestTimes[ev[r].ip] > MAX_REQUEST_TIMES))
  /\ [][\A ip \in IPs : requestTimes'[ip] >= requestTimes[ip]]_vars
  /\ [][\A r \in Reqs :
          pc[r] = "idle" /\ pc'[r] # "idle"
            /\ requestTimes'[ev'[r].ip] > MAX_REQUEST_TIMES
          => /\ pc'[r] = "done"
             /\ UNCHANGED <<dbVars, config>>]_vars

\* the request after the ceiling has been rejected, after the others were
\* served, while the other IP is still served
C13_Witness ==
  \E r \in Reqs :
    /\ Guarded(r) /\ ev[r].ip = "ip1"
    /\ requestTimes["ip1"] = MAX_REQUEST_TIMES + 1
    /\ requestTimes["ip2"] > 0
    /\ Hits(counter, "/a") = MAX_REQUEST_TIMES + requestTimes["ip2"]

----------------------------------------------------------------------------
(* SET_PASSWORD, requests handled at once *)

\* The stored config at the start: without a password, or with the admin's
PasswordRows ==
  { JsonStringify(Obj(<<>>)),
    JsonStringify(Obj(<< <<"ADMIN_PASS", Md5(AdminToken)>> >>)) }

\* the admin, and a visitor who asks for a password of their own
PasswordEvents ==
  { [Ev EXCEPT !.event = "SET_PASSWORD", !.accessToken = tok, !.password = tok] :
      tok \in {AdminToken, 2} }

InitPassword == \E row \in PasswordRows : InitWith(row, NoTable)

NextPassword ==
  \/ \E r \in Reqs, e \in PasswordEvents : Begin(r, e)
  \/ \E r \in Reqs : ReadConfig(r)
  \/ \E r \in Reqs : ConfigSteps(r)
  \/ \E r \in Reqs : Finish(r)

SpecPassword == InitPassword /\ [][NextPassword]_vars

\* the step is the config write of the SET_PASSWORD in slot r
WritesPassword(r) ==
  /\ ev[r].event = "SET_PASSWORD"
  /\ pc[r] = "writeConfigWrite" /\ pc'[r] = "done"

\* C14: once an admin password is stored, a SET_PASSWORD whose own
\* accessToken does not hash to it answers with a failure and leaves the
\* stored config as it is, under any interleaving with other requests.
C14_PasswordProtected ==
  /\ [](\A r \in Reqs :
          /\ ev[r].event = "SET_PASSWORD" /\ pc[r] = "done"
          /\ Truthy(Stored, "ADMIN_PASS") /\ ~IsAdmin(Stored, own[r])
          => res[r].code = "PASS_EXIST")
  /\ [][\A r \in Reqs :
          /\ WritesPassword(r)
          /\ Truthy(Stored, "ADMIN_PASS") /\ ~IsAdmin(Stored, own[r])
          => configRow' = configRow]_vars

----------------------------------------------------------------------------
(* COMMENT_GET_FOR_ADMIN, one request after another *)

\* Rows of visitors and a row of the admin's own, marked spam or not
AdminReadRowKinds ==
  { Row(3, "ip2", "/a", NoId, NoId, FALSE, TickMs - 1, TickMs - 1, <<>>, FALSE),
    Row(3, "ip2", "/a", NoId, NoId, TRUE, TickMs, TickMs, <<>>, FALSE),
    Row(AdminToken, "ip1", "/b", NoId, NoId, TRUE, TickMs, TickMs, <<>>, FALSE),
    Row(2, "ip1", "/a", NoId, NoId, FALSE, TickMs, TickMs, <<>>, FALSE) }

AdminReadTables == UNION { [1..n -> AdminReadRowKinds] : n \in 0..MaxComments }

AdminReadEvents ==
  { [Ev EXCEPT !.event = "COMMENT_GET_FOR_ADMIN", !.accessToken = AdminToken,
               !.type = ty, !.keyword = kw, !.per = per, !.page = page] :
      ty \in {"VISIBLE", "HIDDEN", "", "ALL"}, kw \in {"", "/a", "ip1"},
      per \in {1, 2}, page \in {1, 2} }
  \cup { [Ev EXCEPT !.event = "COMMENT_GET_FOR_ADMIN", !.accessToken = tok,
                    !.type = "VISIBLE", !.per = per, !.page = 1] :
           tok \in {AdminToken, 2}, per \in {0, 1} }

InitAdminRead ==
  \E t \in AdminReadTables :
    InitWith(JsonStringify(Obj(<< <<"ADMIN_PASS", Md5(AdminToken)>> >>)), t)

NextAdminRead ==
  \/ \E e \in AdminReadEvents : Quiet /\ Begin(SeqSlot, e)
  \/ ReadConfig(SeqSlot)
  \/ AdminCount(SeqSlot)
  \/ AdminQuery(SeqSlot)
  \/ Finish(SeqSlot)

SpecAdminRead == InitAdminRead /\ [][NextAdminRead]_vars

\* the row is one the admin asks for with the type
Shown(row, type) ==
  CASE type = "VISIBLE" -> ~row.isSpam
    [] type = "HIDDEN" -> row.isSpam
    [] OTHER -> TRUE

\* the rows of the table that match the type and the keyword of e
Wanted(tbl, e) ==
  {i \in DOMAIN tbl : /\ Shown(tbl[i], e.type)
                      /\ (Like(tbl[i].ip, e.keyword) \/ Like(tbl[i].url, e.keyword))}

\* slot r holds the answer to a COMMENT_GET_FOR_ADMIN of the admin with a
\* page size and a page number
AdminReadDone(r) ==
  /\ pc[r] = "done" /\ ev[r].event = "COMMENT_GET_FOR_ADMIN"
  /\ own[r] = AdminToken /\ ev[r].per > 0 /\ ev[r].page > 0

\* C15: COMMENT_GET_FOR_ADMIN by the admin succeeds and returns with type
\* VISIBLE only rows not marked spam, with HIDDEN only rows marked spam, with
\* any other type all rows, whoever wrote them; count is the number of rows
\* matching the type and the keyword; the page is the rows at offset
\* per * (page - 1), at most per of them, of an order with created
\* descending.
C15_AdminFilter ==
  \A r \in Reqs : AdminReadDone(r) =>
    LET e == ev[r]
        W == Wanted(comment, e)
        off == e.per * (e.page - 1)
    IN  /\ res[r].code = "SUCCESS"
        /\ \A k \in DOMAIN res[r].data : Shown(comment[res[r].data[k]], e.type)
        /\ res[r].count = Cardinality(W)
        /\ Len(res[r].data) <= e.per
        /\ \E s \in [1..Cardinality(W) -> W] :
             /\ \A i, j \in DOMAIN s : i # j => s[i] # s[j]
             /\ \A i, j \in DOMAIN s :
                  i < j => comment[s[i]].created >= comment[s[j]].created
             /\ res[r].data = [k \in 1..Min(e.per, Max(Len(s) - off, 0)) |-> s[off + k]]

\* the admin asked for VISIBLE and got the one row not marked spam and not
\* the admin's own row, which is marked spam
C15_Witness ==
  \E r \in Reqs :
    /\ AdminReadDone(r) /\ ev[r].type = "VISIBLE"
    /\ \E i \in DOMAIN comment : comment[i].isSpam /\ comment[i].uid = own[r]
    /\ Len(res[r].data) = 1 /\ res[r].count = 1

\* the admin asked for the second page of the rows marked spam
C15_SecondPage ==
  \E r \in Reqs :
    /\ AdminReadDone(r) /\ ev[r].type = "HIDDEN" /\ ev[r].page = 2
    /\ Len(res[r].data) = 1 /\ res[r].count = 2

----------------------------------------------------------------------------
(* COMMENT_IMPORT_FOR_ADMIN, one request after another *)

\* the batches the import adapters return for the uploaded file
ImportBatches ==
  { <<AdminRow>>, <<AdminRow, [AdminRow EXCEPT !.isSpam = TRUE]>> }

ImportEvents ==
  { [Ev EXCEPT !.event = "COMMENT_IMPORT_FOR_ADMIN", !.accessToken = AdminToken,
               !.import = b] : b \in ImportBatches }

InitImport ==
  InitWith(JsonStringify(Obj(<< <<"ADMIN_PASS", Md5(AdminToken)>> >>)), NoTable)

NextImport ==
  \/ \E e \in ImportEvents : Quiet /\ Begin(SeqSlot, e)
  \/ ReadConfig(SeqSlot)
  \/ AdminImport(SeqSlot)
  \/ Finish(SeqSlot)

SpecImport == InitImport /\ [][NextImport]_vars

\* the number of failures the log of the response records
Failures(log) == Cardinality({k \in DOMAIN log : log[k] = "error"})

\* C16: when the import has answered, the response carries the success code
\* and the log, every failure is in the log, and every record of the batch
\* but the failed ones has been persisted.
C16_ImportGoesOn ==
  \A r \in Reqs :
    pc[r] = "done" /\ ev[r].event = "COMMENT_IMPORT_FOR_ADMIN" =>
      /\ res[r].code = "SUCCESS" /\ res[r].log # <<>>
      /\ Cardinality(DOMAIN comment \ DOMAIN loc[r].snap)
           = Len(ev[r].import) - Failures(res[r].log)

----------------------------------------------------------------------------
(* Claims about the statements prepared on demand *)

\* C17: when a COMMENT_GET finds no top-level and no pinned comment, no
\* reply query with zero rid placeholders is built or issued, and the answer
\* is an empty list with more = false.
C17_EmptyPageShortCircuit ==
  /\ 0 \notin DOMAIN db.replyQueryCache
  /\ \A r \in Reqs :
       /\ pc[r] = "getReply" => loc[r].main # <<>>
       /\ pc[r] = "done" /\ ev[r].event = "COMMENT_GET" /\ ev[r].url # NoUrl
            /\ loc[r].main = <<>>
            => res[r].data = <<>> /\ ~res[r].more

\* Reads and admin updates, one request after another
StmtRowKinds ==
  { Row(3, "ip2", "/a", NoId, NoId, TRUE, TickMs - 1, TickMs - 1, <<>>, FALSE),
    Row(2, "ip2", "/a", NoId, NoId, FALSE, TickMs, TickMs, <<>>, FALSE) }

StmtTables == UNION { [1..n -> StmtRowKinds] : n \in 0..MaxComments }

\* event.set of COMMENT_SET_FOR_ADMIN, its keys in the order of insertion
StmtSets ==
  { Obj(<< <<"top", TRUE>> >>),
    Obj(<< <<"top", TRUE>>, <<"isSpam", FALSE>> >>),
    Obj(<< <<"isSpam", FALSE>>, <<"top", TRUE>> >>),
    Obj(<< <<"url", "/b">>, <<"isSpam", TRUE>> >>),
    Obj(<< <<"url", "/b">>, <<"top", TRUE>>, <<"isSpam", FALSE>> >>),
    Obj(<< <<"isSpam", FALSE>>, <<"url", "/b">>, <<"top", TRUE>> >>) }

StmtEvents ==
  { [Ev EXCEPT !.event = "COMMENT_SET_FOR_ADMIN", !.accessToken = AdminToken,
               !.id = 1, !.set = set] : set \in StmtSets }
  \cup { [Ev EXCEPT !.event = "COMMENT_GET", !.accessToken = 2, !.url = "/a",
                    !.before = b] : b \in {NoCursor, TickMs} }

InitStmt ==
  \E t \in StmtTables :
    InitWith(JsonStringify(Obj(<< <<"ADMIN_PASS", Md5(AdminToken)>> >>)), t)

NextStmt ==
  \/ \E e \in StmtEvents : Quiet /\ Begin(SeqSlot, e)
  \/ ReadConfig(SeqSlot)
  \/ GetSteps(SeqSlot)
  \/ AdminSet(SeqSlot)
  \/ Finish(SeqSlot)

SpecStmt == InitStmt /\ [][NextStmt]_vars

\* the texts given to DB.prepare that are the text t
Prepares(t) == {k \in DOMAIN db.DB : db.DB[k] = t}

\* C18: an entry of either cache is never replaced or removed; each cached
\* key has been given to DB.prepare exactly once, and nothing else has; the
\* statement a request got from getReplyQuery(n) or getCommentSetStmt(fields)
\* is the object the cache holds for that key.
C18_StatementCache ==
  /\ [][/\ \A n \in DOMAIN db.replyQueryCache :
             /\ n \in DOMAIN db'.replyQueryCache
             /\ db'.replyQueryCache[n] = db.replyQueryCache[n]
        /\ \A f \in DOMAIN db.commentSetStmtCache :
             /\ f \in DOMAIN db'.commentSetStmtCache
             /\ db'.commentSetStmtCache[f] = db.commentSetStmtCache[f]]_vars
  /\ [](/\ \A n \in DOMAIN db.replyQueryCache :
             Cardinality(Prepares([kind |-> "reply", n |-> n, fields |-> <<>>])) = 1
        /\ \A f \in DOMAIN db.commentSetStmtCache :
             Cardinality(Prepares([kind |-> "set", n |-> 0, fields |-> f])) = 1
        /\ Len(db.DB) = Cardinality(DOMAIN db.replyQueryCache)
                          + Cardinality(DOMAIN db.commentSetStmtCache))
  /\ [](\A r \in Reqs :
          /\ pc[r] = "getReply" =>
               /\ Len(loc[r].main) \in DOMAIN db.replyQueryCache
               /\ loc[r].stmt = db.replyQueryCache[Len(loc[r].main)]
               /\ loc[r].stmt.n = Len(loc[r].main)
          /\ pc[r] = "adminSet" =>
               /\ loc[r].fields \in DOMAIN db.commentSetStmtCache
               /\ loc[r].stmt = db.commentSetStmtCache[loc[r].fields]
               /\ loc[r].stmt.fields = loc[r].fields)

\* the third request is about to run a statement, and of the three requests
\* two have had a statement prepared, one of each kind
C18_Witness ==
  /\ requestTimes["ip1"] = 3
  /\ Len(db.DB) = 2
  /\ DOMAIN db.replyQueryCache # {} /\ DOMAIN db.commentSetStmtCache # {}
  /\ \E r \in Reqs : pc[r] \in {"getReply", "adminSet"}

\* f comes before g in the order of UTF-16 code units
Before(f, g) ==
  <<f, g>> \in { <<"created", "ip">>, <<"created", "isSpam">>,
                 <<"created", "top">>, <<"created", "url">>, <<"ip", "isSpam">>, <<"ip", "top">>, <<"ip", "url">>,
                 <<"isSpam", "top">>, <<"isSpam", "url">>, <<"top", "url">> }

\* the step is the run of the update of the COMMENT_SET_FOR_ADMIN in slot r
RunsSet(r) == pc[r] = "adminSet" /\ pc'[r] = "done"

\* C19: the statement of COMMENT_SET_FOR_ADMIN is the one keyed by the
\* sorted list of the keys of event.set; its k-th argument is set[k-th sorted
\* field] and the last one the id; the cache holds one statement per set of
\* keys, whatever the order the requests listed them in; the run gives each
\* named field of the identified comment its value and changes nothing else.
C19_SetBinding ==
  /\ [](\A r \in Reqs : pc[r] = "adminSet" =>
          LET f == loc[r].stmt.fields
              a == loc[r].args
          IN  /\ Range(f) = Keys(ev[r].set)
              /\ \A i, j \in DOMAIN f : i < j => Before(f[i], f[j])
              /\ Len(a) = Len(f) + 1
              /\ \A k \in DOMAIN f : a[k] = Field(ev[r].set, f[k])
              /\ a[Len(f) + 1] = ev[r].id)
  /\ [](\A f, g \in DOMAIN db.commentSetStmtCache : Range(f) = Range(g) => f = g)
  /\ [][\A r \in Reqs : RunsSet(r) =>
          /\ DOMAIN comment' = DOMAIN comment
          /\ \A i \in DOMAIN comment :
               \A c \in DOMAIN comment[i] :
                 comment'[i][c] = IF i = ev[r].id /\ c \in Keys(ev[r].set)
                                  THEN Field(ev[r].set, c)
                                  ELSE comment[i][c]]_vars

\* three fields of comment 1 have been set by a request that listed them
\* unsorted, with the statement an earlier request had prepared, and comment
\* 2 is there
C19_Witness ==
  \E r \in Reqs :
    /\ pc[r] = "done" /\ ev[r].event = "COMMENT_SET_FOR_ADMIN"
    /\ ev[r].set[1][1] = "url" /\ Len(ev[r].set) = 3
    /\ loc[r].stmt.obj < Len(db.DB)
    /\ DOMAIN comment = {1, 2}
    /\ comment[1].url = "/b" /\ comment[1].top /\ ~comment[1].isSpam

----------------------------------------------------------------------------
(* The two thresholds of limitFilter, one submission after another *)

\* LIMIT_PER_MINUTE and LIMIT_PER_MINUTE_ALL: unset, no number, 0 or 1
LimitValues == {NaN, NotNumeric, 0, 1}

LimitConfigs ==
  { Obj(IF i = NaN THEN <<>> ELSE << <<"LIMIT_PER_MINUTE", i>> >>)
      \o Obj(IF a = NaN THEN <<>> ELSE << <<"LIMIT_PER_MINUTE_ALL", a>> >>) :
      i \in LimitValues, a \in LimitValues }

\* comments submitted within the window by the two IPs
LimitRowKinds ==
  { Row(2, ip, "/a", NoId, NoId, FALSE, TickMs, TickMs, <<>>, FALSE) : ip \in IPs }

LimitTables == UNION { [1..n -> LimitRowKinds] : n \in 0..MaxComments }

LimitEvents ==
  { [Ev EXCEPT !.event = "COMMENT_SUBMIT", !.ip = "ip1", !.accessToken = 2,
               !.url = "/a", !.hasBody = TRUE] }

InitLimit ==
  \E o \in LimitConfigs, t \in LimitTables : InitWith(JsonStringify(o), t)

NextLimit ==
  \/ \E e \in LimitEvents : Quiet /\ Begin(SeqSlot, e)
  \/ ReadConfig(SeqSlot)
  \/ SubmitSteps(SeqSlot)
  \/ Finish(SeqSlot)
  \/ Background

SpecLimit == InitLimit /\ [][NextLimit]_vars

\* the threshold the stored config gives for key k
Threshold(k) ==
  IF k \in Keys(Stored) /\ Field(Stored, k) \in Nat THEN Field(Stored, k) ELSE 10

\* the submission in slot r found more comments of its IP, or of all IPs,
\* in the window than a threshold that is not 0
IpExceeded(r) ==
  /\ Threshold("LIMIT_PER_MINUTE") # 0
  /\ Cardinality({i \in DOMAIN loc[r].snap : loc[r].snap[i].ip = ev[r].ip})
       > Threshold("LIMIT_PER_MINUTE")
AllExceeded(r) ==
  /\ Threshold("LIMIT_PER_MINUTE_ALL") # 0
  /\ Cardinality(DOMAIN loc[r].snap) > Threshold("LIMIT_PER_MINUTE_ALL")

\* limitFilter has decided for the submission in slot r
LimitDecided(r) ==
  /\ ev[r].event = "COMMENT_SUBMIT"
  /\ pc[r] \notin {"idle", "readConfig", "limitFilter"}

\* C20: each threshold is the number configured for it, and 10 when that is
\* unset or no number, whatever the other one is; for a threshold of 0 no
\* count query is issued and the submission is not rejected by that check,
\* however many comments there are; limitFilter decides only when both
\* counts are there; it reports the per-IP message when the per-IP limit is
\* exceeded, the other limit exceeded or not, the global message when only
\* the global limit is, and lets the submission pass otherwise.
C20_TwoThresholds ==
  /\ [](\A r \in Reqs : pc[r] = "limitFilter" =>
          /\ loc[r].limIp = Threshold("LIMIT_PER_MINUTE")
          /\ loc[r].limAll = Threshold("LIMIT_PER_MINUTE_ALL"))
  /\ [][\A r \in Reqs : pc[r] = "limitFilter" =>
          /\ ~loc[r].gotIp /\ loc'[r].gotIp => Threshold("LIMIT_PER_MINUTE") # 0
          /\ ~loc[r].gotAll /\ loc'[r].gotAll => Threshold("LIMIT_PER_MINUTE_ALL") # 0
          /\ pc'[r] # "limitFilter" => loc[r].gotIp /\ loc[r].gotAll]_vars
  /\ [](\A r \in Reqs : LimitDecided(r) =>
          /\ IpExceeded(r) <=> pc[r] = "done" /\ res[r].message = "rate ip"
          /\ ~IpExceeded(r) /\ AllExceeded(r)
               <=> pc[r] = "done" /\ res[r].message = "rate all"
          /\ ~IpExceeded(r) /\ ~AllExceeded(r) <=> "limit" \in Range(loc[r].trail))

\* both limits are 1 and both are exceeded: the per-IP message is reported
C20_Witness ==
  \E r \in Reqs :
    /\ LimitDecided(r) /\ IpExceeded(r) /\ AllExceeded(r)
    /\ Threshold("LIMIT_PER_MINUTE") = 1 /\ Threshold("LIMIT_PER_MINUTE_ALL") = 1
    /\ res[r].message = "rate ip"

\* the per-IP threshold is 0, the table is full of this IP's comments, and
\* the submission has passed limitFilter
C20_Disabled ==
  \E r \in Reqs :
    /\ LimitDecided(r) /\ "limit" \in Range(loc[r].trail)
    /\ Threshold("LIMIT_PER_MINUTE") = 0
    /\ Cardinality({i \in DOMAIN loc[r].snap : loc[r].snap[i].ip = ev[r].ip})
         = MaxComments

----------------------------------------------------------------------------
(* Threads: submissions with pid and rid, and admin deletes, one request   *)
(* after another                                                           *)

ThreadConfigs == { Obj(<< <<"ADMIN_PASS", Md5(AdminToken)>> >>) }

\* submissions of a top-level comment and of replies naming a parent, a
\* thread or both; the admin deletes comment 1
ThreadEvents ==
  { [Ev EXCEPT !.event = "COMMENT_SUBMIT", !.accessToken = 2, !.url = "/a",
               !.hasBody = TRUE, !.pid = f[1], !.rid = f[2]] :
      f \in { <<NoId, NoId>>, <<1, 1>>, <<1, NoId>>, <<NoId, 1>> } }
  \cup { [Ev EXCEPT !.event = "COMMENT_DELETE_FOR_ADMIN",
                    !.accessToken = AdminToken, !.id = 1] }

\* at the start the table is empty or holds the top-level comment 1
InitThread ==
  \E o \in ThreadConfigs, t \in {NoTable, 1 :> AdminRow} :
    InitWith(JsonStringify(o), t)

NextThread ==
  \/ \E e \in ThreadEvents : Quiet /\ Begin(SeqSlot, e)
  \/ ReadConfig(SeqSlot)
  \/ SubmitSteps(SeqSlot)
  \/ AdminDelete(SeqSlot)
  \/ Finish(SeqSlot)
  \/ Background

SpecThread == InitThread /\ [][NextThread]_vars

\* C21: in every state of the comment table, rid is empty iff pid is empty,
\* and a rid that is not empty is the id of a stored comment whose own rid
\* is empty.
C21_ThreadRoot ==
  \A i \in DOMAIN comment :
    /\ comment[i].rid = NoId <=> comment[i].pid = NoId
    /\ comment[i].rid # NoId =>
         /\ comment[i].rid \in DOMAIN comment
         /\ comment[comment[i].rid].rid = NoId

----------------------------------------------------------------------------
(* Likes, reads, admin updates and submissions on a stored comment, one    *)
(* request after another                                                   *)

\* event.set of COMMENT_SET_FOR_ADMIN: any column may be named
EditSets == { Obj(<< <<"isSpam", TRUE>> >>), Obj(<< <<"created", 0>> >>) }

EditEvents ==
  { [Ev EXCEPT !.event = "COMMENT_SET_FOR_ADMIN", !.accessToken = AdminToken,
               !.id = 1, !.set = set] : set \in EditSets }
  \cup { [Ev EXCEPT !.event = "COMMENT_LIKE", !.accessToken = 2, !.id = 1],
         [Ev EXCEPT !.event = "COMMENT_GET", !.accessToken = 2, !.url = "/a"],
         [Ev EXCEPT !.event = "COMMENT_SUBMIT", !.accessToken = 2, !.url = "/a",
                    !.hasBody = TRUE] }

InitEdit ==
  InitWith(JsonStringify(Obj(<< <<"ADMIN_PASS", Md5(AdminToken)>> >>)),
           1 :> AdminRow)

NextEdit ==
  \/ Tick
  \/ \E e \in EditEvents : Quiet /\ Begin(SeqSlot, e)
  \/ ReadConfig(SeqSlot)
  \/ AdminSet(SeqSlot)
  \/ LikeSteps(SeqSlot)
  \/ GetSteps(SeqSlot)
  \/ SubmitSteps(SeqSlot)
  \/ Finish(SeqSlot)
  \/ Background

SpecEdit == InitEdit /\ [][NextEdit]_vars

\* the step is the end of the background work of comment i, or the run of
\* an admin update
Moderates(i) ==
  \/ i \in DOMAIN bgTasks \ DOMAIN bgTasks'
  \/ \E r \in Reqs : RunsSet(r)

\* C22: no step changes the created value of a stored comment or removes
\* the comment; a step that changes its updated value is the spam-flag
\* update of its background work or an admin field update.
C22_Immutable ==
  [][\A i \in DOMAIN comment :
       /\ i \in DOMAIN comment'
       /\ comment'[i].created = comment[i].created
       /\ comment'[i].updated # comment[i].updated => Moderates(i)]_vars

----------------------------------------------------------------------------
(* Likes of one comment, requests handled at once *)

\* comment 1, liked by nobody or by both identities
RaceTables ==
  { 1 :> Row(3, "ip2", "/a", NoId, NoId, FALSE, TickMs, TickMs, l, FALSE) :
      l \in { <<>>, <<2, 3>> } }

RaceEvents ==
  { [Ev EXCEPT !.event = "COMMENT_LIKE", !.accessToken = tok, !.id = 1] :
      tok \in {2, 3} }

InitLikeRace == \E t \in RaceTables : InitWith(JsonStringify(Obj(<<>>)), t)

NextLikeRace ==
  \/ \E r \in Reqs, e \in RaceEvents : Begin(r, e)
  \/ \E r \in Reqs : ReadConfig(r)
  \/ \E r \in Reqs : LikeSteps(r)
  \/ \E r \in Reqs : Finish(r)

SpecLikeRace == InitLikeRace /\ [][NextLikeRace]_vars

\* C23: under any interleaving of the reads and writes of COMMENT_LIKE
\* requests, every stored like list holds each identity at most once.
C23_LikeUnique ==
  \A i \in DOMAIN comment :
    \A j, k \in DOMAIN comment[i].like :
      j # k => comment[i].like[j] # comment[i].like[k]

\* two requests of one identity have read the same list, computed the same
\* new list with the identity in it, and both have written it
C23_Witness ==
  \E r, q \in Reqs :
    /\ r # q /\ LikeDone(r) /\ LikeDone(q)
    /\ own[r] = own[q] /\ loc[r].uid = own[r] /\ loc[q].uid = own[q]
    /\ loc[r].likes = loc[q].likes /\ own[r] \in Range(loc[r].likes)
    /\ comment[1].like = loc[r].likes

\* slots r and q hold answered toggles of comment 1 by two identities, each
\* made with its own token, both begun with the same like list
BothToggled(r, q) ==
  /\ r # q /\ LikeDone(r) /\ LikeDone(q)
  /\ own[r] # own[q] /\ loc[r].uid = own[r] /\ loc[q].uid = own[q]
  /\ loc[r].snap = loc[q].snap

\* C24: when two identities have toggled the same comment at once, the
\* membership of each of them in the like list is the opposite of what it
\* was before, under every interleaving of their reads and writes.
C24_NoLostToggle ==
  \A r, q \in Reqs : BothToggled(r, q) =>
    LET old == Range(loc[r].snap[1].like)
        new == Range(comment[1].like)
    IN  /\ own[r] \in new <=> own[r] \notin old
        /\ own[q] \in new <=> own[q] \notin old

----------------------------------------------------------------------------
(* Submissions of one IP, requests handled at once *)

\* the per-IP threshold is 1
SubmitRaceConfigs == { Obj(<< <<"LIMIT_PER_MINUTE", 1>> >>) }

SubmitRaceEvents ==
  { [Ev EXCEPT !.event = "COMMENT_SUBMIT", !.ip = "ip1", !.accessToken = 2,
               !.url = "/a", !.hasBody = TRUE] }

InitSubmitRace ==
  \E o \in SubmitRaceConfigs : InitWith(JsonStringify(o), NoTable)

NextSubmitRace ==
  \/ \E r \in Reqs, e \in SubmitRaceEvents : Begin(r, e)
  \/ \E r \in Reqs : ReadConfig(r)
  \/ \E r \in Reqs : SubmitSteps(r)
  \/ \E r \in Reqs : Finish(r)
  \/ Background

SpecSubmitRace == InitSubmitRace /\ [][NextSubmitRace]_vars

\* the comments of the IP stored with created inside the window that ends
\* now
StoredInWindow(ip) ==
  {i \in DOMAIN comment : comment[i].ip = ip /\ now - comment[i].created < WindowMs}

\* C25: under every interleaving of the submissions of one IP, the comments
\* of that IP stored within one window are no more than the same requests
\* could store one after another: the threshold and the one more that
\* limitFilter lets pass at a count equal to the threshold.
C25_LimitUnderRace ==
  \A ip \in IPs :
    Cardinality(StoredInWindow(ip)) <= Threshold("LIMIT_PER_MINUTE") + 1

----------------------------------------------------------------------------
(* The requester identity, requests handled at once *)

\* a like by one visitor, a read by another, a submission by a visitor who
\* has no token yet
IdentityEvents ==
  { [Ev EXCEPT !.event = "COMMENT_LIKE", !.accessToken = 2, !.id = 1],
    [Ev EXCEPT !.event = "COMMENT_GET", !.accessToken = 3, !.url = "/a"],
    [Ev EXCEPT !.event = "COMMENT_SUBMIT", !.url = "/a", !.hasBody = TRUE] }

InitIdentity == InitWith(JsonStringify(Obj(<<>>)), 1 :> AdminRow)

NextIdentity ==
  \/ \E r \in Reqs, e \in IdentityEvents : Begin(r, e)
  \/ \E r \in Reqs : ReadConfig(r)
  \/ \E r \in Reqs : LikeSteps(r)
  \/ \E r \in Reqs : GetSteps(r)
  \/ \E r \in Reqs : SubmitSteps(r)
  \/ \E r \in Reqs : Finish(r)
  \/ Background

SpecIdentity == InitIdentity /\ [][NextIdentity]_vars

\* the segments of like and commentGet, which hold the uid of getUid()
UidSegments ==
  {"likeRead", "likeWrite", "getCount", "getMain", "getTop", "getReply"}

\* C26: under any interleaving, the uid of a request's like toggle and of
\* its visibility check, the uid of the comment it is about to store and
\* the accessToken in its response are the token resolved for that request.
C26_IdentityIsolation ==
  \A r \in Reqs :
    /\ pc[r] \in UidSegments => loc[r].uid = own[r]
    /\ pc[r] = "save" => loc[r].data.uid = own[r]
    /\ pc[r] = "done" /\ res[r].accessToken # NoToken => res[r].accessToken = own[r]

====
